---- MODULE Spec2Model ----
(***************************************************************************)
(* cp210x-program: the EEPROM image of a Silabs CP210x, its hex-file       *)
(* format, the value sets read from and written to it, the programmer      *)
(* that talks to the device, and the baudrate-table merge.                 *)
(*                                                                         *)
(* Byte strings (python 2 str) are sequences of integers 0..255; text is a *)
(* sequence of one-character strings.                                      *)
(***************************************************************************)
EXTENDS Integers, Sequences, FiniteSets, TLC

\* ------------------------------------------------------------ cp210x.py
SIZE_EEPROM == 1024
SIZE_PRODUCT_STRING == 125
SIZE_SERIAL_NUMBER == 63
SIZE_BAUDRATES == 32
SIZE_BAUDRATE_CFG == 10
SIZE_BAUDRATE_TABLE == SIZE_BAUDRATES * SIZE_BAUDRATE_CFG
SIZE_VENDOR_STRING == 24
LCK_LOCKED == 0
LCK_UNLOCKED == 255

\* ------------------------------------------------------------ eeprom.py
POS_BAUDRATE_TABLE == 0
POS_PART_NUMBER == 511
POS_STRING_DESC_0 == 512
POS_PRODUCT_STRING == 520
POS_SERIAL_NUMBER == 775
POS_VENDOR_ID == 912
POS_PRODUCT_ID == 914
POS_VERSION == 916
POS_CFG_ATTRIBUTES == 929
POS_MAX_POWER == 930
POS_VENDOR_STRING == 963
POS_LOCK_VALUE == 1023
START_ADDRESS == 13824

Min(a, b) == IF a < b THEN a ELSE b

\* to_binary(value, size, le): size bytes of value, low byte first, reversed
\* when le is false; value & 0xFF and value >>= 8 floor like \div and %.
to_binary(value, size, le) ==
    LET data == [i \in 1..size |-> (value \div (256 ^ (i - 1))) % 256]
    IN  IF le THEN data ELSE [i \in 1..size |-> data[size + 1 - i]]

\* from_binary(data, le): value = value << 8 | byte over the bytes, most
\* significant first (the data reversed when le).
RECURSIVE from_binary_loop(_, _, _)
from_binary_loop(data, i, value) ==
    IF i > Len(data) THEN value
    ELSE from_binary_loop(data, i + 1, value * 256 + data[i])

from_binary(data, le) ==
    LET d == IF le THEN [i \in 1..Len(data) |-> data[Len(data) + 1 - i]] ELSE data
    IN  from_binary_loop(d, 1, 0)

\* sum(ord(c) for c in line), over line[lo..hi], by halves
RECURSIVE SumBytes(_, _, _)
SumBytes(line, lo, hi) ==
    IF lo > hi THEN 0
    ELSE IF lo = hi THEN line[lo]
    ELSE SumBytes(line, lo, (lo + hi) \div 2) + SumBytes(line, (lo + hi) \div 2 + 1, hi)

\* A faulty checksum that keeps seven bits of the sum: & 0x7F
checksum_7bit(line) == SumBytes(line, 1, Len(line)) % 128

\* checksum(line): sum of the bytes & 0xFF
checksum(line) == SumBytes(line, 1, Len(line)) % 256

\* str.encode('hex') / str.decode('hex') (binascii): two digits per byte,
\* lowercase on output; either case on input, an odd length or any other
\* character is a TypeError.
LowerHex == <<"0","1","2","3","4","5","6","7","8","9","a","b","c","d","e","f">>
UpperHex == <<"0","1","2","3","4","5","6","7","8","9","A","B","C","D","E","F">>

\* A faulty encoding that emits uppercase digits
encode_hex_upper(data) ==
    [i \in 1..(2 * Len(data)) |->
        IF i % 2 = 1 THEN UpperHex[(data[(i + 1) \div 2] \div 16) + 1]
        ELSE UpperHex[(data[i \div 2] % 16) + 1]]

encode_hex(data) ==
    [i \in 1..(2 * Len(data)) |->
        IF i % 2 = 1 THEN LowerHex[(data[(i + 1) \div 2] \div 16) + 1]
        ELSE LowerHex[(data[i \div 2] % 16) + 1]]

HexDigits == {LowerHex[d] : d \in 1..16} \cup {UpperHex[d] : d \in 1..16}
HexDigitValue ==
    [c \in HexDigits |-> (CHOOSE d \in 1..16 : LowerHex[d] = c \/ UpperHex[d] = c) - 1]

decode_hex_ok(text) ==
    Len(text) % 2 = 0 /\ \A i \in 1..Len(text) : text[i] \in HexDigits

decode_hex(text) ==
    [i \in 1..(Len(text) \div 2) |->
        16 * HexDigitValue[text[2 * i - 1]] + HexDigitValue[text[2 * i]]]

\* hex_content.split('\n'): the pieces between newlines, one more than there
\* are newlines (the last piece is empty when the text ends with a newline).
\* The pieces of text[lo..hi] are those of its two halves, the last piece of
\* the first half continuing in the first piece of the second.
RECURSIVE SplitRange(_, _, _)
SplitRange(text, lo, hi) ==
    IF \A i \in lo..hi : text[i] # "\n" THEN << SubSeq(text, lo, hi) >>
    ELSE IF lo = hi THEN << <<>>, <<>> >>
    ELSE LET l == SplitRange(text, lo, (lo + hi) \div 2)
             r == SplitRange(text, (lo + hi) \div 2 + 1, hi)
         IN  SubSeq(l, 1, Len(l) - 1) \o << l[Len(l)] \o r[1] >> \o Tail(r)

split(text) == SplitRange(text, 1, Len(text))

\* EEPROM.parse_hex_file: the tags of hex_content one after the other from
\* tag i on, content and address as accumulated so far. The result is what
\* the call leaves: self.content (partial when it raises), the HexFileError
\* raised or "none", and the number of tags looked at.
ParseResult(content, error, tags) ==
    [content |-> content, error |-> error, tags |-> tags]

\* One pass of the loop body on one tag with the cursor at address: the
\* HexFileError it raises or "none", whether it is the end tag (break), and
\* the payload it appends.
TagResult(error, end, line) == [error |-> error, end |-> end, line |-> line]

parse_tag(tag, address) ==
    IF Len(tag) = 0 \/ tag[1] # ":"
    THEN TagResult("Line doesn't start with ':'", FALSE, <<>>)
    ELSE IF ~decode_hex_ok(Tail(tag))
    THEN TagResult("Hex data expected", FALSE, <<>>)
    ELSE
    LET c == decode_hex(Tail(tag)) IN
    IF Len(c) < 5 THEN TagResult("Line to short", FALSE, <<>>)
    ELSE IF checksum(c) # 0 THEN TagResult("Checksum error", FALSE, <<>>)
    ELSE
    LET size == from_binary(SubSeq(c, 1, 1), TRUE)
        tag_address == from_binary(SubSeq(c, 2, 3), FALSE)
        tag_type == from_binary(SubSeq(c, 4, 4), TRUE)
        line == SubSeq(c, 5, Len(c) - 1)
    IN  IF tag_type = 0
        THEN IF tag_address # address
             THEN TagResult("Expected address", FALSE, <<>>)
             ELSE TagResult("none", FALSE, line)
        ELSE IF tag_type = 1
        THEN IF size # 0 \/ Len(line) # 0
             THEN TagResult("Defekt end tag", FALSE, <<>>)
             ELSE TagResult("none", TRUE, <<>>)
        ELSE TagResult("Unknown tag type", FALSE, <<>>)

\* One turn of the for loop: nothing once the loop has raised or left by
\* break, else the body on this tag.
parse_step(st, tag) ==
    IF st.error # "none" \/ st.end THEN st
    ELSE LET r == parse_tag(tag, st.address)
         IN  [content |-> st.content \o r.line,
              address |-> st.address + Len(r.line),
              error   |-> r.error,
              end     |-> r.end,
              tags    |-> st.tags + 1]

\* The loop over tags[lo..hi] from state st, in order: the first half, then
\* the second half from the state the first half leaves.
RECURSIVE parse_tags(_, _, _, _)
parse_tags(tags, lo, hi, st) ==
    IF lo > hi THEN st
    ELSE IF lo = hi THEN parse_step(st, tags[lo])
    ELSE LET first == parse_tags(tags, lo, (lo + hi) \div 2, st)
         IN  IF first.error # "none" \/ first.end THEN first
             ELSE parse_tags(tags, (lo + hi) \div 2 + 1, hi, first)

parse_hex_file(hex_content) ==
    LET tags == split(hex_content)
        st == parse_tags(tags, 1, Len(tags),
                         [content |-> <<>>, address |-> START_ADDRESS,
                          error |-> "none", end |-> FALSE, tags |-> 0])
    IN  ParseResult(st.content, st.error, st.tags)

\* A faulty tag whose last byte is the one's complement of the byte sum
build_tag_ones_complement(content, tag_start) ==
    LET line == SubSeq(content, tag_start + 1, Min(tag_start + 16, Len(content)))
        address == START_ADDRESS + tag_start
        tag == to_binary(Len(line), 1, TRUE) \o to_binary(address, 2, FALSE)
                 \o <<0>> \o line
        cs == checksum(tag)
    IN  <<":">> \o encode_hex(tag \o <<255 - cs>>)
              \o <<"\n">>

\* EEPROM.build_hex_file: one tag per 0x10 bytes of content, then the end tag.
EndTag == <<":","0","0","0","0","0","0","0","1","F","F","\n">>

build_tag(content, tag_start) ==
    LET line == SubSeq(content, tag_start + 1, Min(tag_start + 16, Len(content)))
        address == START_ADDRESS + tag_start
        tag == to_binary(Len(line), 1, TRUE) \o to_binary(address, 2, FALSE)
                 \o <<0>> \o line
        cs == checksum(tag)
    IN  <<":">> \o encode_hex(IF cs = 0 THEN tag \o <<0>> ELSE tag \o <<256 - cs>>)
              \o <<"\n">>

\* The tags for tag_start = 0x10 * k, k in lo..hi, in order.
RECURSIVE build_tags(_, _, _)
build_tags(content, lo, hi) ==
    IF lo > hi THEN <<>>
    ELSE IF lo = hi THEN build_tag(content, 16 * lo)
    ELSE build_tags(content, lo, (lo + hi) \div 2)
           \o build_tags(content, (lo + hi) \div 2 + 1, hi)

\* A faulty build that leaves the end tag out
build_hex_file_no_end(content) ==
    build_tags(content, 0, ((Len(content) + 15) \div 16) - 1)

\* range(0, len(self.content), 0x10) has ceil(len / 0x10) elements
build_hex_file(content) ==
    build_tags(content, 0, ((Len(content) + 15) \div 16) - 1) \o EndTag

\* test_platform_data.py: the published hex text of a captured CP2102 image.
orig_hex_data ==
    <<":","1","0","3","6","0","0","0","0","f","f","f","0","f","f","f","a","0","1","0","0","6","0","e","3","1","6","0","0","f","f","f","0","f","f","f","a","0","1","0","0","8","f","\n">> \o
    <<":","1","0","3","6","1","0","0","0","6","0","e","3","1","6","0","0","f","f","e","c","f","f","f","8","0","1","0","0","8","0","4","f","1","2","0","0","f","f","e","6","a","8","\n">> \o
    <<":","1","0","3","6","2","0","0","0","f","f","f","6","0","1","0","0","0","0","1","0","0","e","0","0","f","f","d","6","f","f","f","0","0","1","0","0","0","0","c","a","f","7","\n">> \o
    <<":","1","0","3","6","3","0","0","0","0","8","0","0","f","f","d","0","f","f","e","e","0","1","0","0","2","0","a","1","0","7","0","0","f","f","c","c","f","f","e","c","4","7","\n">> \o
    <<":","1","0","3","6","4","0","0","0","0","1","0","0","0","0","0","8","0","7","0","0","f","f","a","2","f","f","d","c","0","1","0","0","0","0","e","8","0","3","0","0","0","2","\n">> \o
    <<":","1","0","3","6","5","0","0","0","f","f","a","0","f","f","d","c","0","1","0","0","9","0","d","0","0","3","0","0","f","f","9","8","f","f","d","9","0","1","0","0","1","c","\n">> \o
    <<":","1","0","3","6","6","0","0","0","0","0","8","4","0","3","0","0","f","f","6","4","f","f","c","5","0","1","0","0","0","0","5","8","0","2","0","0","f","f","4","4","0","e","\n">> \o
    <<":","1","0","3","6","7","0","0","0","f","f","b","9","0","1","0","0","0","0","f","4","0","1","0","0","f","f","3","0","f","f","b","2","0","1","0","0","0","0","c","2","f","9","\n">> \o
    <<":","1","0","3","6","8","0","0","0","0","1","0","0","f","e","c","8","f","f","8","b","0","1","0","0","0","0","2","c","0","1","0","0","f","e","8","9","f","f","7","3","c","2","\n">> \o
    <<":","1","0","3","6","9","0","0","0","0","1","0","0","0","0","f","a","0","0","0","0","f","e","5","f","f","f","6","3","0","1","0","0","0","0","e","1","0","0","0","0","8","e","\n">> \o
    <<":","1","0","3","6","a","0","0","0","f","e","5","3","f","f","5","f","0","1","0","0","c","0","d","a","0","0","0","0","f","e","2","b","f","f","5","0","0","1","0","0","5","7","\n">> \o
    <<":","1","0","3","6","b","0","0","0","0","0","c","8","0","0","0","0","f","d","8","f","f","f","1","5","0","1","0","0","0","0","9","6","0","0","0","0","f","c","b","f","5","0","\n">> \o
    <<":","1","0","3","6","c","0","0","0","f","e","c","7","0","1","0","0","8","0","7","0","0","0","0","0","f","b","1","e","f","e","2","b","0","1","0","0","0","0","4","b","b","6","\n">> \o
    <<":","1","0","3","6","d","0","0","0","0","0","0","0","f","a","2","4","f","e","0","c","0","1","0","0","8","0","3","e","0","0","0","0","f","9","7","d","f","e","0","c","8","3","\n">> \o
    <<":","1","0","3","6","e","0","0","0","0","1","0","0","4","0","3","8","0","0","0","0","f","6","3","c","f","e","0","c","0","1","0","0","8","0","2","5","0","0","0","0","7","f","\n">> \o
    <<":","1","0","3","6","f","0","0","0","f","2","f","b","f","e","0","c","0","1","0","0","2","0","1","c","0","0","0","0","e","c","7","8","f","e","0","c","0","1","0","0","2","7","\n">> \o
    <<":","1","0","3","7","0","0","0","0","c","0","1","2","0","0","0","0","e","8","9","0","f","e","0","c","0","1","0","0","a","0","0","f","0","0","0","0","d","8","f","0","e","d","\n">> \o
    <<":","1","0","3","7","1","0","0","0","f","e","0","c","0","1","0","0","6","0","0","9","0","0","0","0","c","b","e","b","f","e","0","c","0","1","0","0","0","8","0","7","6","5","\n">> \o
    <<":","1","0","3","7","2","0","0","0","0","0","0","0","b","1","e","0","f","e","0","c","0","1","0","0","b","0","0","4","0","0","0","0","6","3","c","0","f","e","0","c","1","c","\n">> \o
    <<":","1","0","3","7","3","0","0","0","0","1","0","0","5","8","0","2","0","0","0","0","b","1","e","0","f","e","0","c","0","4","0","0","2","c","0","1","0","0","0","0","6","2","\n">> \o
    <<":","1","0","3","7","4","0","0","0","0","0","0","0","0","0","0","0","0","0","0","0","0","0","0","0","0","0","0","0","0","0","0","0","0","0","0","0","0","0","0","0","7","9","\n">> \o
    <<":","1","0","3","7","5","0","0","0","0","0","0","0","0","0","0","0","0","0","0","0","0","0","0","0","0","0","0","0","0","0","0","0","0","0","0","0","0","0","0","0","6","9","\n">> \o
    <<":","1","0","3","7","6","0","0","0","0","0","0","0","0","0","0","0","0","0","0","0","0","0","0","0","0","0","0","0","0","0","0","0","0","0","0","0","0","0","0","0","5","9","\n">> \o
    <<":","1","0","3","7","7","0","0","0","0","0","0","0","0","0","0","0","0","0","0","0","0","0","0","0","0","0","0","0","0","0","0","0","0","0","0","0","0","0","0","0","4","9","\n">> \o
    <<":","1","0","3","7","8","0","0","0","0","0","0","0","0","0","0","0","0","0","0","0","0","0","0","0","0","0","0","0","0","0","0","0","0","0","0","0","0","0","0","0","3","9","\n">> \o
    <<":","1","0","3","7","9","0","0","0","0","0","0","0","0","0","0","0","0","0","0","0","0","0","0","0","0","0","0","0","0","0","0","0","0","0","0","0","0","0","0","0","2","9","\n">> \o
    <<":","1","0","3","7","a","0","0","0","0","0","0","0","0","0","0","0","0","0","0","0","0","0","0","0","0","0","0","0","0","0","0","0","0","0","0","0","0","0","0","0","1","9","\n">> \o
    <<":","1","0","3","7","b","0","0","0","0","0","0","0","0","0","0","0","0","0","0","0","0","0","0","0","0","0","0","0","0","0","0","0","0","0","0","0","0","0","0","0","0","9","\n">> \o
    <<":","1","0","3","7","c","0","0","0","0","0","0","0","0","0","0","0","0","0","0","0","0","0","0","0","0","0","0","0","0","0","0","0","0","0","0","0","0","0","0","0","f","9","\n">> \o
    <<":","1","0","3","7","d","0","0","0","0","0","0","0","0","0","0","0","0","0","0","0","0","0","0","0","0","0","0","0","0","0","0","0","0","0","0","0","0","0","0","0","e","9","\n">> \o
    <<":","1","0","3","7","e","0","0","0","0","0","0","0","0","0","0","0","0","0","0","0","0","0","0","0","0","0","0","0","0","0","0","0","0","0","0","0","0","0","0","0","d","9","\n">> \o
    <<":","1","0","3","7","f","0","0","0","0","0","0","0","0","0","0","0","0","0","0","0","0","0","0","0","0","0","0","0","0","0","0","0","0","0","0","0","0","0","0","2","c","7","\n">> \o
    <<":","1","0","3","8","0","0","0","0","0","4","0","3","0","9","0","4","0","0","0","0","0","0","0","0","4","a","0","3","4","3","0","0","5","0","0","0","3","2","0","0","9","2","\n">> \o
    <<":","1","0","3","8","1","0","0","0","3","1","0","0","3","0","0","0","3","2","0","0","2","0","0","0","5","5","0","0","5","3","0","0","4","2","0","0","2","0","0","0","e","b","\n">> \o
    <<":","1","0","3","8","2","0","0","0","7","4","0","0","6","f","0","0","2","0","0","0","5","5","0","0","4","1","0","0","5","2","0","0","5","4","0","0","2","0","0","0","3","9","\n">> \o
    <<":","1","0","3","8","3","0","0","0","4","2","0","0","7","2","0","0","6","9","0","0","6","4","0","0","6","7","0","0","6","5","0","0","2","0","0","0","4","3","0","0","d","8","\n">> \o
    <<":","1","0","3","8","4","0","0","0","6","f","0","0","6","e","0","0","7","4","0","0","7","2","0","0","6","f","0","0","6","c","0","0","6","c","0","0","6","5","0","0","0","9","\n">> \o
    <<":","1","0","3","8","5","0","0","0","7","2","0","0","0","0","0","0","0","0","0","0","0","0","0","0","0","0","0","0","0","0","0","0","0","0","0","0","0","0","0","0","f","6","\n">> \o
    <<":","1","0","3","8","6","0","0","0","0","0","0","0","0","0","0","0","0","0","0","0","0","0","0","0","0","0","0","0","0","0","0","0","0","0","0","0","0","0","0","0","5","8","\n">> \o
    <<":","1","0","3","8","7","0","0","0","0","0","0","0","0","0","0","0","0","0","0","0","0","0","0","0","0","0","0","0","0","0","0","0","0","0","0","0","0","0","0","0","4","8","\n">> \o
    <<":","1","0","3","8","8","0","0","0","0","0","0","0","0","0","0","0","0","0","0","0","0","0","0","0","0","0","0","0","0","0","0","0","0","0","0","0","0","0","0","0","3","8","\n">> \o
    <<":","1","0","3","8","9","0","0","0","0","0","0","0","0","0","0","0","0","0","0","0","0","0","0","0","0","0","0","0","0","0","0","0","0","0","0","0","0","0","0","0","2","8","\n">> \o
    <<":","1","0","3","8","a","0","0","0","0","0","0","0","0","0","0","0","0","0","0","0","0","0","0","0","0","0","0","0","0","0","0","0","0","0","0","0","0","0","0","0","1","8","\n">> \o
    <<":","1","0","3","8","b","0","0","0","0","0","0","0","0","0","0","0","0","0","0","0","0","0","0","0","0","0","0","0","0","0","0","0","0","0","0","0","0","0","0","0","0","8","\n">> \o
    <<":","1","0","3","8","c","0","0","0","0","0","0","0","0","0","0","0","0","0","0","0","0","0","0","0","0","0","0","0","0","0","0","0","0","0","0","0","0","0","0","0","f","8","\n">> \o
    <<":","1","0","3","8","d","0","0","0","0","0","0","0","0","0","0","0","0","0","0","0","0","0","0","0","0","0","0","0","0","0","0","0","0","0","0","0","0","0","0","0","e","8","\n">> \o
    <<":","1","0","3","8","e","0","0","0","0","0","0","0","0","0","0","0","0","0","0","0","0","0","0","0","0","0","0","0","0","0","0","0","0","0","0","0","0","0","0","0","d","8","\n">> \o
    <<":","1","0","3","8","f","0","0","0","0","0","0","0","0","0","0","0","0","0","0","0","0","0","0","0","0","0","0","0","0","0","0","0","0","0","0","0","0","0","0","0","c","8","\n">> \o
    <<":","1","0","3","9","0","0","0","0","0","0","0","0","0","0","0","0","0","0","0","0","0","0","0","a","0","3","3","0","0","0","3","0","0","0","3","0","0","0","3","1","e","9","\n">> \o
    <<":","1","0","3","9","1","0","0","0","0","0","0","0","0","0","0","0","0","0","0","0","0","0","0","0","0","0","0","0","0","0","0","0","0","0","0","0","0","0","0","0","a","7","\n">> \o
    <<":","1","0","3","9","2","0","0","0","0","0","0","0","0","0","0","0","0","0","0","0","0","0","0","0","0","0","0","0","0","0","0","0","0","0","0","0","0","0","0","0","9","7","\n">> \o
    <<":","1","0","3","9","3","0","0","0","0","0","0","0","0","0","0","0","0","0","0","0","0","0","0","0","0","0","0","0","0","0","0","0","0","0","0","0","0","0","0","0","8","7","\n">> \o
    <<":","1","0","3","9","4","0","0","0","0","0","0","0","0","0","0","0","0","0","0","0","0","0","0","0","0","0","0","0","0","0","0","0","0","0","0","0","0","0","0","0","7","7","\n">> \o
    <<":","1","0","3","9","5","0","0","0","0","0","0","0","0","0","0","0","0","0","0","0","0","0","0","0","0","0","0","0","0","0","0","0","0","0","0","0","0","0","0","0","6","7","\n">> \o
    <<":","1","0","3","9","6","0","0","0","0","0","0","0","0","0","0","0","0","0","0","0","0","0","0","0","0","0","0","0","0","0","0","0","0","0","0","0","0","0","0","0","5","7","\n">> \o
    <<":","1","0","3","9","7","0","0","0","0","0","0","0","0","0","0","0","0","0","0","0","0","0","0","0","0","0","0","0","0","0","0","0","0","0","0","0","0","0","0","0","4","7","\n">> \o
    <<":","1","0","3","9","8","0","0","0","0","0","0","0","0","0","0","0","0","0","0","0","0","0","0","2","1","2","0","1","1","0","0","1","0","0","0","0","0","0","4","0","d","1","\n">> \o
    <<":","1","0","3","9","9","0","0","0","c","4","1","0","6","0","e","a","0","0","0","1","0","1","0","2","0","3","0","1","0","9","0","2","2","0","0","0","0","1","0","1","d","4","\n">> \o
    <<":","1","0","3","9","a","0","0","0","0","0","8","0","3","2","0","9","0","4","0","0","0","0","0","2","f","f","0","0","0","0","0","2","0","7","0","5","8","1","0","2","c","6","\n">> \o
    <<":","1","0","3","9","b","0","0","0","4","0","0","0","0","0","0","7","0","5","0","1","0","2","4","0","0","0","0","0","0","0","0","0","0","0","0","0","0","0","0","0","7","8","\n">> \o
    <<":","1","0","3","9","c","0","0","0","0","0","0","0","0","0","1","a","0","3","5","3","0","0","6","9","0","0","6","c","0","0","6","9","0","0","6","3","0","0","6","f","7","7","\n">> \o
    <<":","1","0","3","9","d","0","0","0","0","0","6","e","0","0","2","0","0","0","4","c","0","0","6","1","0","0","6","2","0","0","7","3","0","0","0","0","0","0","0","0","d","7","\n">> \o
    <<":","1","0","3","9","e","0","0","0","0","0","0","0","0","0","0","0","0","0","0","0","0","0","0","0","0","0","0","0","0","0","0","0","0","0","0","0","0","0","0","0","d","7","\n">> \o
    <<":","1","0","3","9","f","0","0","0","0","0","0","0","0","0","0","0","0","0","0","0","0","0","0","0","0","0","0","0","0","0","0","0","0","0","0","0","0","0","f","f","c","8","\n">> \o
    <<":","0","0","0","0","0","0","0","1","F","F","\n">>

\* ------------------------------------------------ cp210x.py: scalar codecs
\* A faulty halving that rounds down
to_div2_floor(p) == p \div 2

\* to_div2(p): int(p / 2), one more when that falls short of p
to_div2(p) ==
    LET value == p \div 2
    IN  IF value * 2 < p THEN value + 1 ELSE value

\* a & b for a, b >= 0
RECURSIVE BitAnd(_, _)
BitAnd(a, b) ==
    IF a = 0 \/ b = 0 THEN 0
    ELSE (a % 2) * (b % 2) + 2 * BitAnd(a \div 2, b \div 2)

\* to_bcd(i): asserts 0 <= i <= 99; (i // 10) << 4 | (i % 10)
to_bcd_ok(i) == i >= 0 /\ i <= 99
to_bcd(i) == (i \div 10) * 16 + (i % 10)

\* to_bcd2((i, j)): to_bcd(i) << 8 | to_bcd(j)
to_bcd2_ok(v) == to_bcd_ok(v[1]) /\ to_bcd_ok(v[2])
to_bcd2(v) == to_bcd(v[1]) * 256 + to_bcd(v[2])

\* from_bcd(num): num & 0x0F + (num >> 4) * 10, where + binds tighter than &
from_bcd(num) == BitAnd(num, 15 + (num \div 16) * 10)

\* from_bcd2(data): (from_bcd(data >> 8), from_bcd(data & 0xFF))
from_bcd2(data) == <<from_bcd(data \div 256), from_bcd(data % 256)>>

\* parse_baudrate_cfg(data): baudgen and timer big-endian, prescaler, a byte
\* skipped, baudrate little-endian
parse_baudrate_cfg(data) ==
    <<from_binary(SubSeq(data, 1, Min(2, Len(data))), FALSE),
      from_binary(SubSeq(data, 3, Min(4, Len(data))), FALSE),
      from_binary(SubSeq(data, 5, Min(5, Len(data))), TRUE),
      from_binary(SubSeq(data, 7, Min(10, Len(data))), TRUE)>>

\* build_baudrate_cfg(baudgen, timer0reload, prescaler, baudrate)
build_baudrate_cfg(cfg) ==
    to_binary(cfg[1], 2, FALSE) \o to_binary(cfg[2], 2, FALSE)
      \o to_binary(cfg[3], 1, TRUE) \o <<0>> \o to_binary(cfg[4], 4, TRUE)

\* unicode.encode('utf-16-le') of the code points value[lo..hi]: two bytes
\* per unit, low byte first, a surrogate pair above U+FFFF
utf16_units(c) ==
    IF c < 65536 THEN <<c>>
    ELSE <<55296 + ((c - 65536) \div 1024), 56320 + ((c - 65536) % 1024)>>

RECURSIVE encode_utf16le(_, _, _)
encode_utf16le(value, lo, hi) ==
    IF lo > hi THEN <<>>
    ELSE IF lo = hi
    THEN LET u == utf16_units(value[lo])
         IN  IF Len(u) = 1 THEN <<u[1] % 256, u[1] \div 256>>
             ELSE <<u[1] % 256, u[1] \div 256, u[2] % 256, u[2] \div 256>>
    ELSE encode_utf16le(value, lo, (lo + hi) \div 2)
           \o encode_utf16le(value, (lo + hi) \div 2 + 1, hi)

encode(value) == encode_utf16le(value, 1, Len(value))

\* str.decode('utf-16-le'): the units of the data; a high surrogate must be
\* followed by a low one and a low one preceded by a high one, and the data
\* must hold whole units, else UnicodeDecodeError
unit(data, i) == data[2 * i - 1] + 256 * data[2 * i]
IsHigh(u) == u >= 55296 /\ u <= 56319
IsLow(u) == u >= 56320 /\ u <= 57343

decode_ok(data) ==
    /\ Len(data) % 2 = 0
    /\ \A i \in 1..(Len(data) \div 2) :
         /\ IsHigh(unit(data, i)) =>
              i < Len(data) \div 2 /\ IsLow(unit(data, i + 1))
         /\ IsLow(unit(data, i)) => i > 1 /\ IsHigh(unit(data, i - 1))

RECURSIVE decode_utf16le(_, _, _)
decode_utf16le(data, lo, hi) ==
    IF lo > hi THEN <<>>
    ELSE IF lo = hi
    THEN LET u == unit(data, lo)
         IN  IF IsLow(u) THEN <<>>
             ELSE IF IsHigh(u)
             THEN <<65536 + (u - 55296) * 1024 + (unit(data, lo + 1) - 56320)>>
             ELSE <<u>>
    ELSE decode_utf16le(data, lo, (lo + hi) \div 2)
           \o decode_utf16le(data, (lo + hi) \div 2 + 1, hi)

decode(data) == decode_utf16le(data, 1, Len(data) \div 2)

\* ------------------------------------------------------ eeprom.py: EEPROM
\* EEPROM.get(pos, length): self.content[pos:pos+length]
get(content, pos, length) ==
    SubSeq(content, pos + 1, Min(pos + length, Len(content)))

\* A set that a locked image refuses: the content stays as it is when the
\* byte at POS_LOCK_VALUE is LCK_LOCKED
set_lock_gated(content, pos, data) ==
    IF Len(content) > POS_LOCK_VALUE /\ content[POS_LOCK_VALUE + 1] = LCK_LOCKED
    THEN content
    ELSE SubSeq(content, 1, Min(pos, Len(content))) \o data
           \o SubSeq(content, pos + Len(data) + 1, Len(content))

\* EEPROM.set(pos, data):
\* self.content = self.content[:pos] + data + self.content[pos + len(data):]
set(content, pos, data) ==
    SubSeq(content, 1, Min(pos, Len(content))) \o data
      \o SubSeq(content, pos + Len(data) + 1, Len(content))

\* What a getter or a setter leaves: the exception raised ("none" when it
\* returns), the value returned, the content afterwards.
Got(error, value) == [error |-> error, value |-> value]
Done(error, content) == [error |-> error, content |-> content]

\* A faulty integer setter that writes one byte more than the field has
int_set_wide(content, position, size, value) ==
    set(content, position, to_binary(value, size + 1, TRUE))

\* _int_value(position, size, read, write): get and set, the read and write
\* conversions applied by the field that uses them
int_get(content, position, size) == from_binary(get(content, position, size), TRUE)
int_set(content, position, size, value) ==
    set(content, position, to_binary(value, size, TRUE))

\* _str_value(position, max_desc_size).get
str_get(content, position, max_desc_size) ==
    LET desc_size == from_binary(get(content, position, 1), TRUE)
    IN  IF ~(desc_size <= max_desc_size /\ desc_size >= 2)
        THEN Got("AssertionError", <<>>)
        ELSE IF get(content, position + 1, 1) # <<3>>
        THEN Got("AssertionError", <<>>)
        ELSE LET data == get(content, position + 2, desc_size - 2)
             IN  IF decode_ok(data) THEN Got("none", decode(data))
                 ELSE Got("UnicodeDecodeError", <<>>)

\* A faulty setter whose first byte counts the payload alone
str_set_payload_size(content, position, max_desc_size, value) ==
    LET encoded == encode(value)
        desc_size == Len(encoded) + 2
    IN  IF ~(desc_size <= max_desc_size) THEN Done("AssertionError", content)
        ELSE Done("none", set(content, position, <<Len(encoded), 3>> \o encoded))

\* _str_value(position, max_desc_size).set
str_set(content, position, max_desc_size, value) ==
    LET encoded == encode(value)
        desc_size == Len(encoded) + 2
    IN  IF ~(desc_size <= max_desc_size) THEN Done("AssertionError", content)
        ELSE Done("none", set(content, position, <<desc_size, 3>> \o encoded))

\* The baudrate_table property: _get_baudrate_table, _set_baudrate_table
get_baudrate_table(content) ==
    LET dat == get(content, POS_BAUDRATE_TABLE, SIZE_BAUDRATE_TABLE)
    IN  [k \in 1..SIZE_BAUDRATES |->
            parse_baudrate_cfg(SubSeq(dat, SIZE_BAUDRATE_CFG * (k - 1) + 1,
                                      Min(SIZE_BAUDRATE_CFG * k, Len(dat))))]

RECURSIVE join_baudrate_cfg(_, _, _)
join_baudrate_cfg(baudrates, lo, hi) ==
    IF lo > hi THEN <<>>
    ELSE IF lo = hi THEN build_baudrate_cfg(baudrates[lo])
    ELSE join_baudrate_cfg(baudrates, lo, (lo + hi) \div 2)
           \o join_baudrate_cfg(baudrates, (lo + hi) \div 2 + 1, hi)

set_baudrate_table(content, baudrates) ==
    IF Len(baudrates) # SIZE_BAUDRATES THEN Done("AssertionError", content)
    ELSE Done("none", set(content, POS_BAUDRATE_TABLE,
                          join_baudrate_cfg(baudrates, 1, Len(baudrates))))

\* VALUES of cp210x.py: the names of the fields, in catalog order
VALUES == <<"product_string", "serial_number", "product_id", "vendor_id",
            "version", "bus_powered", "max_power", "locked", "part_number",
            "vendor_string", "baudrate_table">>

\* getattr(self, name) for the properties of EEPROM
getattr(content, name) ==
    CASE name = "baudrate_table" -> Got("none", get_baudrate_table(content))
      [] name = "product_string" ->
            str_get(content, POS_PRODUCT_STRING, SIZE_PRODUCT_STRING)
      [] name = "serial_number" ->
            str_get(content, POS_SERIAL_NUMBER, SIZE_SERIAL_NUMBER)
      [] name = "part_number" -> Got("none", int_get(content, POS_PART_NUMBER, 1))
      [] name = "vendor_id" -> Got("none", int_get(content, POS_VENDOR_ID, 2))
      [] name = "product_id" -> Got("none", int_get(content, POS_PRODUCT_ID, 2))
      [] name = "version" ->
            Got("none", from_bcd2(int_get(content, POS_VERSION, 2)))
      [] name = "bus_powered" ->
            Got("none", BitAnd(int_get(content, POS_CFG_ATTRIBUTES, 1), 64) # 0)
      [] name = "max_power" -> Got("none", int_get(content, POS_MAX_POWER, 1) * 2)
      [] name = "vendor_string" ->
            str_get(content, POS_VENDOR_STRING, SIZE_VENDOR_STRING)
      [] name = "locked" ->
            Got("none", int_get(content, POS_LOCK_VALUE, 1) = LCK_LOCKED)

\* setattr(self, name, value) for the properties of EEPROM
setattr(content, name, value) ==
    CASE name = "baudrate_table" -> set_baudrate_table(content, value)
      [] name = "product_string" ->
            str_set(content, POS_PRODUCT_STRING, SIZE_PRODUCT_STRING, value)
      [] name = "serial_number" ->
            str_set(content, POS_SERIAL_NUMBER, SIZE_SERIAL_NUMBER, value)
      [] name = "part_number" ->
            Done("none", int_set(content, POS_PART_NUMBER, 1, value))
      [] name = "vendor_id" -> Done("none", int_set(content, POS_VENDOR_ID, 2, value))
      [] name = "product_id" ->
            Done("none", int_set(content, POS_PRODUCT_ID, 2, value))
      [] name = "version" ->
            IF to_bcd2_ok(value)
            THEN Done("none", int_set(content, POS_VERSION, 2, to_bcd2(value)))
            ELSE Done("AssertionError", content)
      [] name = "bus_powered" ->
            Done("none", int_set(content, POS_CFG_ATTRIBUTES, 1,
                                 IF value THEN 192 ELSE 128))
      [] name = "max_power" ->
            Done("none", int_set(content, POS_MAX_POWER, 1, to_div2(value)))
      [] name = "vendor_string" ->
            str_set(content, POS_VENDOR_STRING, SIZE_VENDOR_STRING, value)
      [] name = "locked" ->
            Done("none", int_set(content, POS_LOCK_VALUE, 1,
                                 IF value THEN LCK_LOCKED ELSE LCK_UNLOCKED))

\* EEPROM.get_values: getattr for every name of VALUES in order; the first
\* getter that raises ends it
RECURSIVE read_values(_, _, _)
read_values(content, i, values) ==
    IF i > Len(VALUES) THEN Got("none", values)
    ELSE LET r == getattr(content, VALUES[i])
         IN  IF r.error # "none" THEN Got(r.error, values)
             ELSE read_values(content, i + 1,
                              [n \in DOMAIN values \cup {VALUES[i]} |->
                                  IF n = VALUES[i] THEN r.value ELSE values[n]])

get_values(content) == read_values(content, 1, <<>>)

\* EEPROM.set_values: setattr for the items of values in the order the dict
\* yields them; the first setter that raises ends it
RECURSIVE write_values(_, _, _, _)
write_values(content, values, order, i) ==
    IF i > Len(order) THEN Done("none", content)
    ELSE LET r == setattr(content, order[i], values[order[i]])
         IN  IF r.error # "none" THEN r
             ELSE write_values(r.content, values, order, i + 1)

\* values.items(): the keys in any order
Orders(keys) ==
    {order \in [1..Cardinality(keys) -> keys] : \A k \in keys : \E i \in DOMAIN order : order[i] = k}

set_values(content, values, order) == write_values(content, values, order, 1)

\* ------------------------------------------- cp210x.py: Cp210xProgrammer
REG_VENDOR_ID == 14081
REG_PRODUCT_ID == 14082
REG_PRODUCT_STRING == 14083
REG_SERIAL_NUMBER == 14084
REG_CFG_ATTRIBUTES == 14085
REG_MAX_POWER == 14086
REG_VERSION == 14087
REG_EEPROM == 14089
REG_LOCK_VALUE == 14090

\* An outgoing control transfer: _set_config's value, index and data
Transfer(value, index, data) == [value |-> value, index |-> index, data |-> data]

\* The part, as far as the programmer sees it: its lock value and what it was
\* last sent for each register. A locked part takes no data (get_locked:
\* "When True is returnes no data can be written to the device"); the lock
\* value is the register REG_LOCK_VALUE and the last byte of the EEPROM.
device_write(device, t) ==
    IF device.lock = LCK_LOCKED THEN device
    ELSE IF t.value = REG_LOCK_VALUE THEN [device EXCEPT !.lock = t.index]
    ELSE IF t.value = REG_EEPROM
    THEN [device EXCEPT !.lock = t.data[POS_LOCK_VALUE + 1], !.written = t.value]
    ELSE [device EXCEPT !.written = t.value]

\* What a call on the programmer leaves: the exception raised, the cached
\* self._locked (<<>> for None), the part, the outgoing transfers it issued.
Ran(error, cache, device, sent) ==
    [error |-> error, _locked |-> cache, device |-> device, sent |-> sent]

\* get_locked(): the cached value, read from REG_LOCK_VALUE by an incoming
\* transfer only while self._locked is None; in_ok is whether that transfer
\* succeeds (res >= 0)
get_locked(cache, device, in_ok) ==
    IF cache # <<>> THEN Ran("none", cache, device, <<>>)
    ELSE IF ~in_ok THEN Ran("Cp210xError", cache, device, <<>>)
    ELSE Ran("none", <<device.lock = LCK_LOCKED>>, device, <<>>)

\* _set_config(value, index, data): out_ok is whether the outgoing transfer
\* succeeds
_set_config(handle, cache, device, t, in_ok, out_ok) ==
    IF ~handle THEN Ran("AssertionError", cache, device, <<>>)
    ELSE LET g == get_locked(cache, device, in_ok)
         IN  IF g.error # "none" THEN g
             ELSE IF g._locked[1] THEN Ran("DeviceLocked", g._locked, device, <<>>)
             ELSE IF ~out_ok THEN Ran("Cp210xError", g._locked, device, <<t>>)
             ELSE Ran("none", g._locked, device_write(device, t), <<t>>)

\* _set_config_string(value, content, max_length)
_set_config_string(handle, cache, device, value, content, max_length, in_ok, out_ok) ==
    LET encoded == encode(content)
    IN  IF ~(Len(encoded) <= max_length) THEN Ran("AssertionError", cache, device, <<>>)
        ELSE _set_config(handle, cache, device,
                         Transfer(value, 0, <<Len(encoded) + 2, 3>> \o encoded),
                         in_ok, out_ok)

\* The setters: set_<name>(value) on the programmer
call_setter(handle, cache, device, name, value, in_ok, out_ok) ==
    CASE name = "eeprom_content" ->
            IF Len(value) # SIZE_EEPROM THEN Ran("AssertionError", cache, device, <<>>)
            ELSE _set_config(handle, cache, device, Transfer(REG_EEPROM, 0, value),
                             in_ok, out_ok)
      [] name = "product_id" ->
            IF ~(value > 0 /\ value < 65535) THEN Ran("AssertionError", cache, device, <<>>)
            ELSE _set_config(handle, cache, device, Transfer(REG_PRODUCT_ID, value, <<>>),
                             in_ok, out_ok)
      [] name = "vendor_id" ->
            IF ~(value > 0 /\ value < 65535) THEN Ran("AssertionError", cache, device, <<>>)
            ELSE _set_config(handle, cache, device, Transfer(REG_VENDOR_ID, value, <<>>),
                             in_ok, out_ok)
      [] name = "product_string" ->
            _set_config_string(handle, cache, device, REG_PRODUCT_STRING, value,
                               SIZE_PRODUCT_STRING, in_ok, out_ok)
      [] name = "serial_number" ->
            _set_config_string(handle, cache, device, REG_SERIAL_NUMBER, value,
                               SIZE_SERIAL_NUMBER, in_ok, out_ok)
      [] name = "max_power" ->
            IF ~(value >= 0 /\ value <= 500) THEN Ran("AssertionError", cache, device, <<>>)
            ELSE _set_config(handle, cache, device,
                             Transfer(REG_MAX_POWER, to_div2(value), <<>>), in_ok, out_ok)
      [] name = "bus_powered" ->
            _set_config(handle, cache, device,
                        Transfer(REG_CFG_ATTRIBUTES, IF value THEN 192 ELSE 128, <<>>),
                        in_ok, out_ok)
      [] name = "version" ->
            IF ~to_bcd2_ok(value) THEN Ran("AssertionError", cache, device, <<>>)
            ELSE _set_config(handle, cache, device,
                             Transfer(REG_VERSION, to_bcd2(value), <<>>), in_ok, out_ok)
      [] name = "locked" ->
            _set_config(handle, cache, device,
                        Transfer(REG_LOCK_VALUE,
                                 IF value THEN LCK_LOCKED ELSE LCK_UNLOCKED, <<>>),
                        in_ok, out_ok)
      [] name = "baudrate_table" ->
            \* set_baudrate_table calls self.set_baudrate_content, which the
            \* class does not define
            IF Len(value) # SIZE_BAUDRATES THEN Ran("AssertionError", cache, device, <<>>)
            ELSE Ran("AttributeError", cache, device, <<>>)

\* Cp210xProgrammer.set_values: set_<name>(value) for the items of values in
\* the order the dict yields them, part_number and vendor_string left out;
\* the first setter that raises ends it. st is what the calls so far left.
RECURSIVE prog_write_values(_, _, _, _, _, _, _)
prog_write_values(handle, st, values, order, i, in_ok, out_ok) ==
    IF i > Len(order) THEN st
    ELSE IF order[i] \in {"part_number", "vendor_string"}
    THEN prog_write_values(handle, st, values, order, i + 1, in_ok, out_ok)
    ELSE LET r == call_setter(handle, st._locked, st.device, order[i],
                              values[order[i]], in_ok, out_ok)
             n == Ran(r.error, r._locked, r.device, st.sent \o r.sent)
         IN  IF r.error # "none" THEN n
             ELSE prog_write_values(handle, n, values, order, i + 1, in_ok, out_ok)

prog_set_values(handle, cache, device, values, order, in_ok, out_ok) ==
    prog_write_values(handle, Ran("none", cache, device, <<>>), values, order, 1,
                      in_ok, out_ok)

\* ------------------------------------------------------------ valuefile.py
\* REQUEST_BAUDRATE_RANGES: (start, stop) pairs, start None for the first
None == -1
\* A faulty table of 31 ranges: the last one, (300, 57), is missing
REQUEST_BAUDRATE_RANGES_31 ==
    << <<None, 2457601>>, <<2457600, 1474561>>, <<1474560, 1053258>>,
       <<1053257, 670255>>, <<670254, 567139>>, <<567138, 491521>>,
       <<491520, 273067>>, <<273066, 254235>>, <<254234, 237833>>,
       <<237832, 156869>>, <<156868, 129348>>, <<129347, 117029>>,
       <<117028, 77609>>, <<77608, 64112>>, <<64111, 58054>>,
       <<58053, 56281>>, <<56280, 51559>>, <<51558, 38602>>,
       <<38601, 28913>>, <<28912, 19251>>, <<19250, 16063>>,
       <<16062, 14429>>, <<14428, 9613>>, <<9612, 7208>>,
       <<7207, 4804>>, <<4803, 4001>>, <<4000, 2401>>,
       <<2400, 1801>>, <<1800, 1201>>, <<1200, 601>>,
       <<600, 301>> >>

REQUEST_BAUDRATE_RANGES ==
    << <<None, 2457601>>, <<2457600, 1474561>>, <<1474560, 1053258>>,
       <<1053257, 670255>>, <<670254, 567139>>, <<567138, 491521>>,
       <<491520, 273067>>, <<273066, 254235>>, <<254234, 237833>>,
       <<237832, 156869>>, <<156868, 129348>>, <<129347, 117029>>,
       <<117028, 77609>>, <<77608, 64112>>, <<64111, 58054>>,
       <<58053, 56281>>, <<56280, 51559>>, <<51558, 38602>>,
       <<38601, 28913>>, <<28912, 19251>>, <<19250, 16063>>,
       <<16062, 14429>>, <<14428, 9613>>, <<9612, 7208>>,
       <<7207, 4804>>, <<4803, 4001>>, <<4000, 2401>>,
       <<2400, 1801>>, <<1800, 1201>>, <<1200, 601>>,
       <<600, 301>>, <<300, 57>> >>

\* A faulty range test without the lower end: every baudrate up to start
in_range_no_stop(baudrate, range) == range[1] = None \/ baudrate <= range[1]

\* A faulty range test that leaves the lower end out: baudrate > stop
in_range_open(baudrate, range) ==
    (range[1] = None \/ baudrate <= range[1]) /\ baudrate > range[2]

\* (start is None or baudrate <= start) and baudrate >= stop
in_range(baudrate, range) ==
    (range[1] = None \/ baudrate <= range[1]) /\ baudrate >= range[2]

\* A faulty merge that pairs only the first 31 entries of old with a range and
\* passes the 32nd on as it is
merge_baudrate_table_31(old, new) ==
    [i \in 1..Min(Len(old), Len(REQUEST_BAUDRATE_RANGES)) |->
        LET hits == {j \in 1..Len(new) : in_range(new[j][4], REQUEST_BAUDRATE_RANGES[i])}
        IN  IF hits = {} \/ i > 31 THEN old[i]
            ELSE new[CHOOSE j \in hits : \A k \in hits : j <= k]]

\* A faulty merge that takes the last entry of new in the range, not the first
merge_baudrate_table_last(old, new) ==
    [i \in 1..Min(Len(old), Len(REQUEST_BAUDRATE_RANGES)) |->
        LET hits == {j \in 1..Len(new) : in_range(new[j][4], REQUEST_BAUDRATE_RANGES[i])}
        IN  IF hits = {} THEN old[i]
            ELSE new[CHOOSE j \in hits : \A k \in hits : j >= k]]

\* merge_baudrate_table(old, new): for each (old_info, range) of
\* zip(old, REQUEST_BAUDRATE_RANGES), the first entry of new whose baudrate
\* is in the range, old_info when there is none
merge_baudrate_table(old, new) ==
    [i \in 1..Min(Len(old), Len(REQUEST_BAUDRATE_RANGES)) |->
        LET hits == {j \in 1..Len(new) : in_range(new[j][4], REQUEST_BAUDRATE_RANGES[i])}
        IN  IF hits = {} THEN old[i]
            ELSE new[CHOOSE j \in hits : \A k \in hits : j <= k]]

\* dict.get('baudrate_table'): <<>> stands for None here, a table is boxed
dict_get(d, key) == IF key \in DOMAIN d THEN <<d[key]>> ELSE <<>>

\* v.update(new)
dict_update(v, new) ==
    [k \in DOMAIN v \cup DOMAIN new |-> IF k \in DOMAIN new THEN new[k] ELSE v[k]]

\* update_values(v, new, dev), dev_table being dev.baudrate_table
update_values(v, new, dev_table) ==
    LET old_baudrate_table == dict_get(v, "baudrate_table")
        new_baudrate_table == dict_get(new, "baudrate_table")
        updated == dict_update(v, new)
    IN  IF (old_baudrate_table # <<>> \/ new_baudrate_table # <<>>)
           /\ (new_baudrate_table = <<>> \/ Len(new_baudrate_table[1]) < SIZE_BAUDRATES)
        THEN LET baudrate_table ==
                    IF old_baudrate_table # <<>>
                    THEN IF Len(old_baudrate_table[1]) < SIZE_BAUDRATES
                         THEN old_baudrate_table[1]
                         ELSE merge_baudrate_table(dev_table, old_baudrate_table[1])
                    ELSE dev_table
                 merged ==
                    IF new_baudrate_table # <<>> /\ Len(new_baudrate_table[1]) > 0
                    THEN merge_baudrate_table(baudrate_table, new_baudrate_table[1])
                    ELSE baudrate_table
             IN  [k \in DOMAIN updated \cup {"baudrate_table"} |->
                    IF k = "baudrate_table" THEN merged ELSE updated[k]]
        ELSE updated

\* ------------------------------------------------- valuefile.py: write_file
\* The digits of '%d' and '%X'
DIGITS == <<"0", "1", "2", "3", "4", "5", "6", "7", "8", "9",
            "A", "B", "C", "D", "E", "F">>

\* '%d' % n and '%X' % n for n >= 0
RECURSIVE format_d(_)
format_d(n) ==
    IF n < 10 THEN <<DIGITS[n + 1]>>
    ELSE format_d(n \div 10) \o <<DIGITS[(n % 10) + 1]>>

RECURSIVE format_X(_)
format_X(n) ==
    IF n < 16 THEN <<DIGITS[n + 1]>>
    ELSE format_X(n \div 16) \o <<DIGITS[(n % 16) + 1]>>

\* A field width: the text filled on the left up to width, never cut
pad(text, width, fill) == [i \in 1..(width - Len(text)) |-> fill] \o text

\* write_version(v): '%d.%02d' % v
write_version(v) == format_d(v[1]) \o <<".">> \o pad(format_d(v[2]), 2, "0")

\* write_hex(num): '%04X' % num
write_hex(num) == pad(format_X(num), 4, "0")

\* write_bool(b)
write_bool(b) == IF b THEN <<"y", "e", "s">> ELSE <<"n", "o">>

\* str(value) of a unicode string: its ASCII bytes, UnicodeEncodeError when a
\* code point is beyond 127
str_ok(value) == \A i \in 1..Len(value) : value[i] < 128
str(value) == value

\* The type of every field in VALUES of cp210x.py
VALUE_TYPES ==
    [product_string |-> "string", serial_number |-> "string", product_id |-> "id",
     vendor_id |-> "id", version |-> "version", bus_powered |-> "boolean",
     max_power |-> "int", locked |-> "boolean", part_number |-> "int",
     vendor_string |-> "string", baudrate_table |-> "list"]

\* TYPES[type][1](value): the writer of a type
writer(type, value) ==
    CASE type = "boolean" -> Got("none", write_bool(value))
      [] type = "int" -> Got("none", format_d(value))
      [] type = "id" -> Got("none", write_hex(value))
      [] type = "string" ->
            IF str_ok(value) THEN Got("none", str(value))
            ELSE Got("UnicodeEncodeError", <<>>)
      [] type = "version" -> Got("none", write_version(value))

\* '%7.0f' % ((24000000.0 / prescaler) / (0x10000 - baudgen)): the quotient
\* rounded to the nearest integer, a half to the even one
round_baudrate(baudgen, prescaler) ==
    LET d == prescaler * (65536 - baudgen)
        q == 24000000 \div d
        r == 24000000 % d
    IN  IF 2 * r > d \/ (2 * r = d /\ q % 2 = 1) THEN q + 1 ELSE q

\* show_baudrate(baudgen, timegen, prescaler): the pieces of
\* '%7.0f Baud, %s', the timeout '%1.3f ms' from 1000 on and '%d us' below
show_baudrate(baudgen, timegen, prescaler) ==
    IF prescaler = 0 THEN <<"Wrong data, Prescaler is 0.">>
    ELSE LET timeout == (65536 - timegen) * 2
         IN  <<pad(format_d(round_baudrate(baudgen, prescaler)), 7, " "), "Baud">>
               \o (IF timeout >= 1000
                    THEN <<format_d(timeout \div 1000) \o <<".">>
                             \o pad(format_d(timeout % 1000), 3, "0"), "ms">>
                    ELSE <<format_d(timeout), "us">>)

\* A faulty sort that leaves the table as it is
sorted_unsorted(t, n) == SubSeq(t, 1, n)

\* sorted(table, key=(lambda i: i[3]), reverse=True) of the first n entries:
\* descending by baudrate, entries of equal baudrate in their first order
RECURSIVE sorted(_, _)
sorted(t, n) ==
    IF n = 0 THEN <<>>
    ELSE LET s == sorted(t, n - 1)
             k == Cardinality({i \in 1..Len(s) : s[i][4] >= t[n][4]})
         IN  SubSeq(s, 1, k) \o <<t[n]>> \o SubSeq(s, k + 1, Len(s))

\* The fp.write calls of the loop over VALUES, baudrate_table skipped: one
\* <<name, text>> for '%s = %s\n' per name in values; a writer that raises
\* ends it
RECURSIVE write_device_section(_, _, _)
write_device_section(values, i, fp) ==
    IF i > Len(VALUES) THEN Got("none", fp)
    ELSE IF VALUES[i] = "baudrate_table" \/ VALUES[i] \notin DOMAIN values
         THEN write_device_section(values, i + 1, fp)
         ELSE LET w == writer(VALUE_TYPES[VALUES[i]], values[VALUES[i]])
              IN  IF w.error # "none" THEN Got(w.error, fp)
                  ELSE write_device_section(values, i + 1,
                                            Append(fp, <<VALUES[i], w.value>>))

\* The fp.write calls of the baudrate table section: the empty line, the
\* heading, and per entry the pieces of '%7d = %04X, %04X, %d # %s\n'
write_baudrate_section(values) ==
    LET t == sorted(values.baudrate_table, Len(values.baudrate_table))
    IN  << <<"">>, <<"[baudrate table]">> >>
          \o [k \in 1..Len(t) |->
                <<pad(format_d(t[k][4]), 7, " "), write_hex(t[k][1]),
                  write_hex(t[k][2]), format_d(t[k][3]),
                  show_baudrate(t[k][1], t[k][2], t[k][3])>>]

\* write_file(fp, values): everything written to fp, in order
write_file(values) ==
    LET dev == write_device_section(values, 1, << <<"[usb device]">> >>)
    IN  IF dev.error # "none" THEN dev
        ELSE IF "baudrate_table" \in DOMAIN values
             THEN Got("none", dev.value \o write_baudrate_section(values))
             ELSE dev

\* ----------------------------------------------------------------- state
VARIABLES
    content,    \* EEPROM.content
    file,       \* the text of the hex file read_hex_file reads and write_hex_file
                \* writes; in SpecValues, what write_file wrote to fp
    values,     \* the dict of values: what get_values returned, what update_values updates
    table,      \* what the last merge_baudrate_table call yielded
    handle,     \* Cp210xProgrammer.handle is not None
    _locked,    \* Cp210xProgrammer._locked: <<>> for None, else <<True>> or <<False>>
    device,     \* the part behind the programmer
    sent,       \* the outgoing control transfers the last call issued
    error,      \* the exception the last operation raised, "none" when it returned
    op,         \* the last operation and its arguments
    prev,       \* the operation before it
    nops        \* the number of operations so far

vars == <<content, file, values, table, handle, _locked, device, sent, error, op, prev, nops>>

\* How many operations one behaviour applies: to an image, to a hex file, to a
\* programmer, to a dict of values
MaxOps == 2
MaxHexOps == 3
MaxCalls == 3
MaxUpdates == 2

\* EEPROM(content) with a 1024-byte string: the captured image, and an image
\* of zero bytes (whose lock byte reads locked). Integers here are 32 bits
\* wide, so the inputs keep every baudrate below 2^31.
orig_image == parse_hex_file(orig_hex_data).content
zero_image == [i \in 1..SIZE_EEPROM |-> 0]
InitImages == {orig_image, zero_image}

\* Inputs of set(pos, data): inside the image, the lock byte, across the end
SetArgs ==
    {<<0, <<186>>>>, <<POS_LOCK_VALUE, <<LCK_LOCKED>>>>,
     <<SIZE_EEPROM - 4, <<1, 2, 3, 4, 5, 6, 7, 8>>>>}

\* Inputs of the field setters; strings are sequences of code points
Table32 == [k \in 1..SIZE_BAUDRATES |-> <<65520 - k, 65530 - k, 1, 1000 * k>>]
AttrValues ==
    [product_string |-> {<<65, 66>>, <<233, 128512>>, [i \in 1..61 |-> 65],
                         [i \in 1..62 |-> 65]},
     serial_number  |-> {<<48, 48, 48, 49>>, [i \in 1..30 |-> 48], [i \in 1..31 |-> 48]},
     product_id     |-> {60000},
     vendor_id      |-> {4292, 65536 + 4292},
     version        |-> {<<1, 0>>, <<1, 12>>, <<1, 100>>},
     bus_powered    |-> {TRUE, FALSE},
     max_power      |-> {0, 5, 100, 509, 510, 512},
     locked         |-> {TRUE, FALSE},
     part_number    |-> {2},
     vendor_string  |-> {<<83, 105>>, [i \in 1..11 |-> 8364], [i \in 1..12 |-> 83]},
     baudrate_table |-> {Table32, SubSeq(Table32, 1, 3)}]

\* Inputs of set_values: value sets of known fields with in-range values
ValueSets ==
    {[vendor_id |-> 4292, version |-> <<1, 12>>, vendor_string |-> <<83, 105>>],
     [product_string |-> <<65, 66>>, serial_number |-> <<48, 48, 48, 49>>,
      product_id |-> 60000],
     [bus_powered |-> TRUE, max_power |-> 100, locked |-> FALSE],
     [part_number |-> 2, baudrate_table |-> Table32, locked |-> TRUE]}

\* The variables an operation of one part of the program leaves alone
hexVars == <<file>>
valueVars == <<values, table>>
progVars == <<handle, _locked, device, sent>>

\* The bookkeeping of every operation
Called(o, max) == nops < max /\ nops' = nops + 1 /\ prev' = op /\ op' = o

InitRest ==
    /\ values = <<>>
    /\ table = <<>>
    /\ handle = FALSE
    /\ _locked = <<>>
    /\ device = [lock |-> LCK_UNLOCKED, written |-> 0]
    /\ sent = <<>>
    /\ error = "none"
    /\ op = <<"init">>
    /\ prev = <<"init">>
    /\ nops = 0

\* ------------------------------------------------- the image and its fields
Init ==
    /\ content \in InitImages
    /\ file = <<>>
    /\ InitRest

\* eeprom.set(pos, data)
EepromSet(pos, data) ==
    /\ Called(<<"set", pos, data>>, MaxOps)
    /\ content' = set(content, pos, data)
    /\ error' = "none"
    /\ UNCHANGED <<hexVars, valueVars, progVars>>

\* eeprom.<name> = value
EepromSetAttr(name, value) ==
    /\ Called(<<"setattr", name, value>>, MaxOps)
    /\ LET r == setattr(content, name, value)
       IN  content' = r.content /\ error' = r.error
    /\ UNCHANGED <<hexVars, valueVars, progVars>>

\* eeprom.set_values(v)
EepromSetValues(v, order) ==
    /\ Called(<<"set_values", v>>, MaxOps)
    /\ LET r == set_values(content, v, order)
       IN  content' = r.content /\ error' = r.error
    /\ UNCHANGED <<hexVars, valueVars, progVars>>

\* values = eeprom.get_values()
EepromGetValues ==
    /\ Called(<<"get_values">>, MaxOps)
    /\ LET r == get_values(content)
       IN  values' = r.value /\ error' = r.error
    /\ UNCHANGED <<content, hexVars, table, progVars>>

Next ==
    \/ \E a \in SetArgs : EepromSet(a[1], a[2])
    \/ \E name \in DOMAIN AttrValues : \E value \in AttrValues[name] :
          EepromSetAttr(name, value)
    \/ \E v \in ValueSets : \E order \in Orders(DOMAIN v) : EepromSetValues(v, order)
    \/ EepromGetValues

Spec == Init /\ [][Next]_vars

\* ------------------------------------------------------------ the hex file
\* The hex file starts as the published text; a tag of 16 bytes takes 44
\* characters of it
TagChars == 44
TagText(text, k) == SubSeq(text, TagChars * k + 2, TagChars * k + 43)
HasTag(text, k) == Len(text) >= TagChars * (k + 1) /\ decode_hex_ok(TagText(text, k))

\* The text with tag k replaced by the bytes c
WithTag(text, k, c) ==
    SubSeq(text, 1, TagChars * k + 1) \o encode_hex(c)
      \o SubSeq(text, TagChars * k + 44, Len(text))

\* Tag k with payload byte j replaced by b, the checksum byte as it was, or
\* made to fit again
Replaced(c, j, b) == [i \in 1..Len(c) |-> IF i = 5 + j THEN b ELSE c[i]]
Resummed(c) ==
    [i \in 1..Len(c) |->
        IF i = Len(c) THEN (256 - checksum(SubSeq(c, 1, Len(c) - 1))) % 256 ELSE c[i]]

\* Inputs of the edits: <<tag, payload byte, new value>>; payload byte -4 is
\* the size byte that starts the tag
FileEdits == {<<0, 0, 0>>, <<63, 15, 255>>, <<0, -4, 8>>}
FileDamages == {<<0, 0, 1>>, <<63, 15, 254>>, <<31, 8, 128>>}
FileCuts == {63}
FileEnds == {64}
HexSetArgs == {a \in SetArgs : a[1] + Len(a[2]) <= SIZE_EEPROM}

InitHex ==
    /\ content \in InitImages
    /\ file = orig_hex_data
    /\ InitRest

\* eeprom.set(pos, data), between file operations
HexSet(pos, data) ==
    /\ Called(<<"set", pos, data>>, MaxHexOps)
    /\ content' = set(content, pos, data)
    /\ error' = "none"
    /\ UNCHANGED <<hexVars, valueVars, progVars>>

\* eeprom.write_hex_file(f): the lines build_hex_file yields, written to f
WriteHexFile ==
    /\ Called(<<"write_hex_file">>, MaxHexOps)
    /\ file' = build_hex_file(content)
    /\ error' = "none"
    /\ UNCHANGED <<content, valueVars, progVars>>

\* eeprom.read_hex_file(f): parse_hex_file(f.read())
ReadHexFile ==
    /\ Called(<<"read_hex_file">>, MaxHexOps)
    /\ LET r == parse_hex_file(file)
       IN  content' = r.content /\ error' = r.error
    /\ UNCHANGED <<hexVars, valueVars, progVars>>

\* Someone edits the file: one payload byte of one data tag, or its size
\* byte, changed, the tag's checksum byte recomputed
FileEdit(k, j, b) ==
    /\ HasTag(file, k)
    /\ Called(<<"edit", k, j, b>>, MaxHexOps)
    /\ file' = WithTag(file, k, Resummed(Replaced(decode_hex(TagText(file, k)), j, b)))
    /\ UNCHANGED <<content, error, valueVars, progVars>>

\* The file is damaged: one payload byte of one data tag changed to another
\* value, nothing else
FileDamage(k, j, b) ==
    /\ HasTag(file, k)
    /\ decode_hex(TagText(file, k))[5 + j] # b
    /\ Called(<<"damage", k, j, b>>, MaxHexOps)
    /\ file' = WithTag(file, k, Replaced(decode_hex(TagText(file, k)), j, b))
    /\ UNCHANGED <<content, error, valueVars, progVars>>

\* The file is cut short: only its first k data tags are kept, then the end
\* tag
FileCut(k) ==
    /\ HasTag(file, k)
    /\ Called(<<"cut", k>>, MaxHexOps)
    /\ file' = SubSeq(file, 1, TagChars * k) \o EndTag
    /\ UNCHANGED <<content, error, valueVars, progVars>>

\* The file loses its end: only its first k data tags are kept, without the
\* end tag and without the newline after the last of them
FileDropEnd(k) ==
    /\ HasTag(file, k - 1)
    /\ Called(<<"drop_end", k>>, MaxHexOps)
    /\ file' = SubSeq(file, 1, TagChars * k - 1)
    /\ UNCHANGED <<content, error, valueVars, progVars>>

NextHex ==
    \/ \E a \in HexSetArgs : HexSet(a[1], a[2])
    \/ WriteHexFile
    \/ ReadHexFile
    \/ \E k \in FileCuts : FileCut(k)
    \/ \E k \in FileEnds : FileDropEnd(k)
    \/ \E i \in FileEdits : FileEdit(i[1], i[2], i[3])
    \/ \E i \in FileDamages : FileDamage(i[1], i[2], i[3])

SpecHex == InitHex /\ [][NextHex]_vars

\* ---------------------------------------------------------- the programmer
\* Inputs of the setters of Cp210xProgrammer; strings are sequences of code
\* points
ProgValues ==
    [vendor_id      |-> {4292, 0},
     product_id     |-> {60000},
     product_string |-> {<<65, 66>>, [i \in 1..62 |-> 65], [i \in 1..63 |-> 65]},
     serial_number  |-> {<<48, 48, 48, 49>>},
     max_power      |-> {100, 501},
     bus_powered    |-> {TRUE},
     version        |-> {<<1, 0>>},
     locked         |-> {TRUE, FALSE},
     eeprom_content |-> {orig_image},
     baudrate_table |-> {Table32}]

\* Inputs of set_values of Cp210xProgrammer
ProgValueSets ==
    {[baudrate_table |-> Table32, vendor_id |-> 4292],
     [part_number |-> 2, vendor_string |-> <<83, 105>>, product_id |-> 60000],
     [locked |-> TRUE, version |-> <<1, 0>>]}

\* Whether the incoming and the outgoing transfer of a call succeed
UsbOutcomes == {<<TRUE, TRUE>>, <<TRUE, FALSE>>, <<FALSE, TRUE>>}

\* The bookkeeping of a call on the programmer
CalledDev(o) == nops < MaxCalls /\ nops' = nops + 1 /\ op' = o /\ UNCHANGED prev

\* Cp210xProgrammer(dev_info), on a part that is unlocked or locked
InitDev ==
    /\ content = <<>>
    /\ file = <<>>
    /\ values = <<>>
    /\ table = <<>>
    /\ handle = FALSE
    /\ _locked = <<>>
    /\ device \in {[lock |-> LCK_UNLOCKED, written |-> 0],
                   [lock |-> LCK_LOCKED, written |-> 0]}
    /\ sent = <<>>
    /\ error = "none"
    /\ op = <<"init">>
    /\ prev = <<"init">>
    /\ nops = 0

\* open(): usb.open yields a handle or 0
Open(ok) ==
    /\ CalledDev(<<"open", ok>>)
    /\ handle' = ok
    /\ error' = IF ok THEN "none" ELSE "Cp210xError"
    /\ sent' = <<>>
    /\ UNCHANGED <<content, hexVars, valueVars, _locked, device>>

\* close()
Close ==
    /\ CalledDev(<<"close">>)
    /\ handle' = FALSE
    /\ error' = IF handle THEN "none" ELSE "AssertionError"
    /\ sent' = <<>>
    /\ UNCHANGED <<content, hexVars, valueVars, _locked, device>>

\* get_locked()
GetLocked(in_ok) ==
    /\ CalledDev(<<"get_locked", in_ok>>)
    /\ LET r == IF handle THEN get_locked(_locked, device, in_ok)
                ELSE IF _locked # <<>> THEN Ran("none", _locked, device, <<>>)
                ELSE Ran("AssertionError", _locked, device, <<>>)
       IN  _locked' = r._locked /\ error' = r.error /\ sent' = r.sent
    /\ UNCHANGED <<content, hexVars, valueVars, handle, device>>

\* set_<name>(value)
CallSetter(name, value, in_ok, out_ok) ==
    /\ CalledDev(<<"set", name, value, in_ok, out_ok>>)
    /\ LET r == call_setter(handle, _locked, device, name, value, in_ok, out_ok)
       IN  /\ _locked' = r._locked
           /\ device' = r.device
           /\ sent' = r.sent
           /\ error' = r.error
    /\ UNCHANGED <<content, hexVars, valueVars, handle>>

\* set_values(values)
ProgSetValues(v, order, in_ok, out_ok) ==
    /\ CalledDev(<<"set_values", v, in_ok, out_ok>>)
    /\ LET r == prog_set_values(handle, _locked, device, v, order, in_ok, out_ok)
       IN  /\ _locked' = r._locked
           /\ device' = r.device
           /\ sent' = r.sent
           /\ error' = r.error
    /\ UNCHANGED <<content, hexVars, valueVars, handle>>

NextDev ==
    \/ \E ok \in BOOLEAN : Open(ok)
    \/ Close
    \/ \E in_ok \in BOOLEAN : GetLocked(in_ok)
    \/ \E name \in DOMAIN ProgValues : \E value \in ProgValues[name] :
          \E usb \in UsbOutcomes : CallSetter(name, value, usb[1], usb[2])
    \/ \E v \in ProgValueSets : \E order \in Orders(DOMAIN v) :
          \E usb \in UsbOutcomes : ProgSetValues(v, order, usb[1], usb[2])

SpecDev == InitDev /\ [][NextDev]_vars

\* ------------------------------------------------------- the dict of values
\* Baudrate table entries <<baudgen, timer, prescaler, baudrate>> to override
\* with: inside a range, on the bounds of a range, above all, below all
Cfg(baudrate) == <<65000, 65100, 1, baudrate>>
Overrides ==
    {<<>>, <<Cfg(9600)>>, <<Cfg(7208)>>, <<Cfg(9612)>>, <<Cfg(57)>>, <<Cfg(3000000)>>,
     <<Cfg(56)>>, <<Cfg(9600), Cfg(9000)>>, <<Cfg(115200), Cfg(9600)>>}

\* What read_file yields for a values file, what options_to_values yields for
\* the options: no table, a table of a few entries, a whole table
FileValues ==
    {[vendor_id |-> 4292],
     [baudrate_table |-> <<Cfg(115200), Cfg(9600)>>],
     [vendor_id |-> 4292, baudrate_table |-> Table32]}
NewValues ==
    {[product_id |-> 60000]} \cup {[baudrate_table |-> o] : o \in Overrides}
      \cup {[baudrate_table |-> Table32]}

\* Inputs of write_file besides the dict at hand: every scalar field and a
\* table out of order with two entries of one baudrate and a prescaler of 0;
\* a whole table in ascending order; scalar fields only, not in catalog order
\* of writing; a string beyond ASCII
WriteValues ==
    {[product_string |-> <<65, 66>>, serial_number |-> <<48, 48, 48, 49>>,
      product_id |-> 60000, vendor_id |-> 4292, version |-> <<1, 5>>,
      bus_powered |-> TRUE, max_power |-> 100, locked |-> FALSE, part_number |-> 2,
      vendor_string |-> <<83, 105>>,
      baudrate_table |-> <<Cfg(9600), <<65500, 65535, 0, 115200>>, Cfg(300),
                           <<65436, 65000, 4, 9600>> >>],
     [baudrate_table |-> Table32],
     [vendor_string |-> <<83, 105>>, version |-> <<12, 34>>, vendor_id |-> 234,
      locked |-> TRUE],
     [serial_number |-> <<48>>, product_string |-> <<233>>, vendor_id |-> 4292]}

\* The tables to merge into: the image's own, another of 32 entries, one of 3
MergeBases == {get_baudrate_table(orig_image), Table32, SubSeq(Table32, 1, 3)}

InitValues ==
    /\ content = orig_image
    /\ file = <<>>
    /\ InitRest

\* values = valuefile.read_file(fp)
ReadFile(v) ==
    /\ Called(<<"read_file", v>>, MaxUpdates)
    /\ values' = v
    /\ error' = "none"
    /\ UNCHANGED <<content, hexVars, table, progVars>>

\* update_values(values, new, eeprom)
UpdateValues(new) ==
    /\ Called(<<"update_values", new>>, MaxUpdates)
    /\ values' = update_values(values, new, get_baudrate_table(content))
    /\ error' = "none"
    /\ UNCHANGED <<content, hexVars, table, progVars>>

\* table = list(merge_baudrate_table(old, new))
MergeBaudrateTable(old, new) ==
    /\ Called(<<"merge_baudrate_table", old, new>>, MaxUpdates)
    /\ table' = merge_baudrate_table(old, new)
    /\ error' = "none"
    /\ UNCHANGED <<content, hexVars, values, progVars>>

\* valuefile.write_file(fp, v) to an empty fp
WriteFile(v) ==
    /\ Called(<<"write_file", v>>, MaxUpdates)
    /\ LET r == write_file(v)
       IN  file' = r.value /\ error' = r.error
    /\ UNCHANGED <<content, valueVars, progVars>>

\* eeprom.set_values(values)
ApplyValues(order) ==
    /\ Called(<<"set_values", values>>, MaxUpdates)
    /\ LET r == set_values(content, values, order)
       IN  content' = r.content /\ error' = r.error
    /\ UNCHANGED <<hexVars, valueVars, progVars>>

NextValues ==
    \/ \E v \in FileValues : ReadFile(v)
    \/ \E new \in NewValues : UpdateValues(new)
    \/ \E old \in MergeBases : \E new \in Overrides : MergeBaudrateTable(old, new)
    \/ \E v \in WriteValues \cup {values} : WriteFile(v)
    \/ \E order \in Orders(DOMAIN values) : ApplyValues(order)

SpecValues == InitValues /\ [][NextValues]_vars

\* ------------------------------------------------------------------ claims
\* The canonical emitted form of a hex text: 64 data tags of 16 payload bytes
\* in lowercase hex, addresses running from 0x3600, byte sums 0 modulo 256,
\* then the line :00000001FF
LowerDigits == {LowerHex[d] : d \in 1..16}
IsCanonicalTag(t, k) ==
    /\ Len(t) = 43
    /\ t[1] = ":"
    /\ \A i \in 2..43 : t[i] \in LowerDigits
    /\ LET c == decode_hex(Tail(t))
       IN  /\ c[1] = 16
           /\ c[2] * 256 + c[3] = 13824 + 16 * k
           /\ c[4] = 0
           /\ SumBytes(c, 1, 21) % 256 = 0
IsCanonical(text) ==
    LET t == split(text)
    IN  /\ Len(t) = 66
        /\ t[66] = <<>>
        /\ t[65] = <<":","0","0","0","0","0","0","0","1","F","F">>
        /\ \A k \in 0..63 : IsCanonicalTag(t[k + 1], k)

\* C1: for every 1024-byte image, reading the hex file that write_hex_file
\* (build_hex_file) just wrote succeeds and leaves the content equal to the
\* image that was written.
C1_HexRoundTrip ==
    [][(op[1] = "write_hex_file" /\ Len(content) = SIZE_EEPROM
          /\ op'[1] = "read_hex_file")
        => (error' = "none" /\ content' = content)]_vars

\* An image changed by set() was written and read back.
C1_Witness ==
    /\ op[1] = "read_hex_file" /\ prev[1] = "write_hex_file"
    /\ error = "none"
    /\ Len(content) = SIZE_EEPROM
    /\ content[1] = 186

\* C2: for the reference text and for every text in the canonical emitted
\* form, parsing it and building the hex text again yields the same text,
\* character for character.
C2_TextRoundTrip ==
    [][(op[1] = "read_hex_file" /\ op'[1] = "write_hex_file" /\ IsCanonical(file))
        => file' = file]_vars

\* A canonical text other than the reference (a tag of it was edited) was
\* parsed and built again.
C2_Witness ==
    /\ op[1] = "write_hex_file" /\ prev[1] = "read_hex_file"
    /\ IsCanonical(file)
    /\ file # orig_hex_data
    /\ content # zero_image

\* The reference text itself is in the canonical form and is what the model
\* starts from.
C2_Reference == IsCanonical(orig_hex_data)

\* C3: in a canonical text where one payload byte of data tag k was replaced
\* by another value (nothing else changed), parse_hex_file fails with the
\* checksum error at that tag: the content holds the 16 * k bytes of the tags
\* before it and nothing of a later tag.
DamagedAt(text, k, j) ==
    /\ HasTag(text, k)
    /\ LET c == decode_hex(TagText(text, k))
           s == SumBytes(c, 1, Len(c)) % 256
       IN  /\ s # 0
           /\ IsCanonical(WithTag(text, k, Replaced(c, j, (c[5 + j] - s) % 256)))

C3_ChecksumValidation ==
    [][(op[1] = "damage" /\ op'[1] = "read_hex_file" /\ DamagedAt(file, op[2], op[3]))
        => (error' = "Checksum error" /\ Len(content') = 16 * op[2])]_vars

\* The last data tag was damaged, and the parse stopped there with the 63
\* tags before it taken.
C3_Witness ==
    /\ op[1] = "read_hex_file" /\ prev[1] = "damage" /\ prev[2] = 63
    /\ error = "Checksum error"
    /\ Len(content) = 16 * 63

\* C4: after set_values(V) for a value set V of known fields with in-range
\* values, get_values returns for every key of V the value that was written.
C4_ValueSetRoundTrip ==
    [][(op[1] = "set_values" /\ error = "none" /\ op'[1] = "get_values"
          /\ error' = "none")
        => \A k \in DOMAIN op[2] : values'[k] = op[2][k]]_vars

\* C5: on a programmer whose part's lock value is LCK_LOCKED, every setter
\* call that reaches _set_config with the handle open (the transfers
\* themselves succeeding) raises DeviceLocked and issues no outgoing transfer.
C5_LockGatesTransport ==
    [][(device.lock = LCK_LOCKED /\ handle /\ op'[1] = "set" /\ op'[4] /\ op'[5]
          /\ error' # "AssertionError")
        => (error' = "DeviceLocked" /\ sent' = <<>>)]_vars

\* C6 as stated: once the byte at 0x3FF decodes as locked, every set(pos,
\* data) and every field setter fails with DeviceLocked and leaves the content
\* unchanged.
ImageLocked(c) == Len(c) > POS_LOCK_VALUE /\ c[POS_LOCK_VALUE + 1] = LCK_LOCKED

C7_ImageLength == error = "none" => Len(content) = SIZE_EEPROM

\* C8: whenever update_values leaves a baudrate_table in the values (the
\* table of dev having 32 entries), that table has exactly 32 entries.
C8_TableLength ==
    (op[1] = "update_values" /\ "baudrate_table" \in DOMAIN values)
      => Len(values.baudrate_table) = SIZE_BAUDRATES

\* C9: merge_baudrate_table(base, []) yields base, entry for entry and in
\* the same order, for every 32-entry base.
C9_MergeIdentity ==
    (op[1] = "merge_baudrate_table" /\ Len(op[2]) = 32 /\ op[3] = <<>>)
      => /\ Len(table) = 32
         /\ \A i \in 1..32 : table[i] = op[2][i]

\* A 32-entry base other than the part's own table was merged with nothing.
C9_Witness ==
    /\ op[1] = "merge_baudrate_table" /\ op[3] = <<>>
    /\ op[2] = Table32
    /\ Len(table) = 32

\* C10: for a 32-entry base and a single override whose baudrate lies in one
\* of the fixed ranges, the merge puts the override in the slot paired with
\* that range and leaves the other 31 slots as in base.
Within(baudrate, i) ==
    /\ i = 1 \/ baudrate <= REQUEST_BAUDRATE_RANGES[i][1]
    /\ baudrate >= REQUEST_BAUDRATE_RANGES[i][2]

C10_SingleOverride ==
    (op[1] = "merge_baudrate_table" /\ Len(op[2]) = 32 /\ Len(op[3]) = 1
       /\ \E i \in 1..32 : Within(op[3][1][4], i))
      => /\ Len(table) = 32
         /\ \E i \in 1..32 :
              /\ Within(op[3][1][4], i)
              /\ table[i] = op[3][1]
              /\ \A j \in (1..32) \ {i} : table[j] = op[2][j]

\* An override for 9600 went to the slot of the range 7208..9612, the 24th.
C10_Witness ==
    /\ op[1] = "merge_baudrate_table" /\ op[3] = <<Cfg(9600)>>
    /\ Len(op[2]) = 32
    /\ table[24] = Cfg(9600)
    /\ table[23] = op[2][23]

\* C11 as stated: for every 32-entry base and every override list the last
\* entry of the merged table equals the last entry of base.
C11_LastSlotUntouched ==
    (op[1] = "merge_baudrate_table" /\ Len(op[2]) = 32)
      => Len(table) = 32 /\ table[32] = op[2][32]

\* C11 as amended: all 32 slots are paired with a range, the last with
\* 57..300. The last entry of the merged table is the first override whose
\* baudrate lies in 57..300, and the last entry of base only when there is
\* none.
LastRange == <<300, 57>>
InLastRange(baudrate) == baudrate <= LastRange[1] /\ baudrate >= LastRange[2]

C11_LastSlotPaired ==
    (op[1] = "merge_baudrate_table" /\ Len(op[2]) = 32)
      => /\ Len(table) = 32
         /\ LET hits == {j \in 1..Len(op[3]) : InLastRange(op[3][j][4])}
            IN  IF hits = {} THEN table[32] = op[2][32]
                ELSE \E j \in hits : /\ table[32] = op[3][j]
                                     /\ \A k \in hits : j <= k

\* An override for 57 replaced the last entry of a 32-entry base.
C11_Witness ==
    /\ op[1] = "merge_baudrate_table" /\ Len(op[2]) = 32
    /\ op[3] = <<Cfg(57)>>
    /\ table[32] = Cfg(57)
    /\ table[32] # op[2][32]

\* The string fields of the image: where each starts and the largest
\* descriptor it takes
StrFields == {"product_string", "serial_number", "vendor_string"}
StrPos ==
    [product_string |-> POS_PRODUCT_STRING, serial_number |-> POS_SERIAL_NUMBER,
     vendor_string |-> POS_VENDOR_STRING]
StrMax ==
    [product_string |-> SIZE_PRODUCT_STRING, serial_number |-> SIZE_SERIAL_NUMBER,
     vendor_string |-> SIZE_VENDOR_STRING]

\* C12: after a string field of the image is set to a string whose UTF-16LE
\* encoding plus the 2-byte header fits the field, the setter has returned,
\* reading the field returns the same string, and the bytes stored at the
\* field are [payload length + 2][0x03][payload].
C12_StringRoundTrip ==
    (op[1] = "setattr" /\ op[2] \in StrFields
       /\ Len(encode(op[3])) + 2 <= StrMax[op[2]])
      => /\ error = "none"
         /\ getattr(content, op[2]).error = "none"
         /\ getattr(content, op[2]).value = op[3]
         /\ LET payload == encode(op[3])
            IN  SubSeq(content, StrPos[op[2]] + 1, StrPos[op[2]] + 2 + Len(payload))
                  = <<Len(payload) + 2, 3>> \o payload

\* A non-ASCII string with a character above U+FFFF was set and reads back.
C12_Witness ==
    /\ op = <<"setattr", "product_string", <<233, 128512>>>>
    /\ error = "none"
    /\ getattr(content, "product_string").value = <<233, 128512>>
    /\ SubSeq(content, POS_PRODUCT_STRING + 1, POS_PRODUCT_STRING + 8)
         = <<8, 3, 233, 0, 61, 216, 0, 222>>

\* The longest strings that fit were set and read back: 61, 30 and 11
\* characters.
C12_WitnessLongest ==
    /\ op[1] = "setattr" /\ op[2] = "vendor_string"
    /\ Len(encode(op[3])) + 2 = SIZE_VENDOR_STRING
    /\ error = "none"
    /\ getattr(content, "vendor_string").value = op[3]

\* C13: a string whose descriptor (UTF-16LE payload + 2) is longer than the
\* field's maximum size is rejected by set_product_string and
\* set_serial_number of the programmer (any transfer it would make
\* succeeding): the call raises and issues no transfer.
C13_OversizedRejected ==
    (op[1] = "set" /\ op[2] \in {"product_string", "serial_number"}
       /\ op[4] /\ op[5]
       /\ Len(encode(op[3])) + 2 > StrMax[op[2]])
      => error # "none" /\ sent = <<>>

\* The same for the string setters of the image, which do reject such a
\* string and leave the content as it was.
C13_ImageRejects ==
    [][(op'[1] = "setattr" /\ op'[2] \in StrFields
          /\ Len(encode(op'[3])) + 2 > StrMax[op'[2]])
        => error' = "AssertionError" /\ content' = content]_vars

\* The lines of a hex text that hold a record of a type: ':' and hex digits,
\* the fourth byte being the type
IsRecord(line, type) ==
    /\ Len(line) >= 11
    /\ line[1] = ":"
    /\ decode_hex_ok(Tail(line))
    /\ decode_hex(Tail(line))[4] = type
RecordSize(line) == decode_hex(Tail(line))[1]
RecordAddress(line) == decode_hex(Tail(line))[2] * 256 + decode_hex(Tail(line))[3]

\* C14: read_hex_file fails for every text that holds no end record (no
\* record of type 0x01).
C14_TruncatedFile ==
    (op[1] = "read_hex_file"
       /\ LET lines == split(file)
          IN  \A i \in 1..Len(lines) : ~IsRecord(lines[i], 1))
      => error # "none"

\* C15: when read_hex_file accepts a text, the address of its first data
\* record is 0x3600 and the address of every later data record is the
\* address of the record before it plus the size byte of that record.
C15_SequentialAddresses ==
    (op[1] = "read_hex_file" /\ error = "none")
      => LET lines == split(file)
             others == {i \in 1..Len(lines) : ~IsRecord(lines[i], 0)}
             n == IF others = {} THEN Len(lines)
                  ELSE (CHOOSE i \in others : \A j \in others : i <= j) - 1
         IN  /\ n >= 1 => RecordAddress(lines[1]) = START_ADDRESS
             /\ \A i \in 1..(n - 1) :
                  RecordAddress(lines[i + 1])
                    = RecordAddress(lines[i]) + RecordSize(lines[i])

\* C16: set(pos, data) on a 1024-byte image with pos + len(data) > 1024 fails
\* and leaves the content unchanged; with pos + len(data) <= 1024 it returns,
\* the bytes from pos are data and every other byte is as before.
C16_BoundsCheckedWrite ==
    [][(op'[1] = "set" /\ Len(content) = SIZE_EEPROM)
        => IF op'[2] + Len(op'[3]) > SIZE_EEPROM
           THEN error' # "none" /\ content' = content
           ELSE /\ error' = "none"
                /\ Len(content') = SIZE_EEPROM
                /\ \A i \in 1..SIZE_EEPROM :
                     content'[i] = IF i > op'[2] /\ i <= op'[2] + Len(op'[3])
                                   THEN op'[3][i - op'[2]] ELSE content[i]]_vars

\* C17: setting vendor_id or product_id of the image to a value above
\* 0xFFFF, or max_power to a value above 510, is rejected: the setter raises.
C17_IntegerEncodeRange ==
    (op[1] = "setattr"
       /\ \/ op[2] \in {"vendor_id", "product_id"} /\ op[3] > 65535
          \/ op[2] = "max_power" /\ op[3] > 510)
      => error # "none"

\* The register each setter of the programmer writes; set_baudrate_table has
\* none
SetterRegister ==
    [vendor_id |-> REG_VENDOR_ID, product_id |-> REG_PRODUCT_ID,
     product_string |-> REG_PRODUCT_STRING, serial_number |-> REG_SERIAL_NUMBER,
     bus_powered |-> REG_CFG_ATTRIBUTES, max_power |-> REG_MAX_POWER,
     version |-> REG_VERSION, locked |-> REG_LOCK_VALUE]

\* C18: set_values(values) on an open programmer of an unlocked part, the
\* transfers succeeding, issues exactly one transfer to the register of every
\* key of values that has a setter with a register, and no other transfer:
\* none for part_number, none for vendor_string.
C18_ReadOnlyExcluded ==
    [][(op'[1] = "set_values" /\ handle /\ device.lock = LCK_UNLOCKED
          /\ _locked # <<TRUE>> /\ op'[3] /\ op'[4])
        => LET keys == DOMAIN op'[2] \cap DOMAIN SetterRegister
           IN  /\ \A k \in keys :
                    Cardinality({i \in 1..Len(sent') :
                                   sent'[i].value = SetterRegister[k]}) = 1
               /\ \A i \in 1..Len(sent') :
                    \E k \in keys : sent'[i].value = SetterRegister[k]]_vars

\* The part of C18 that holds: whatever happens, set_values issues no
\* transfer for a key that is not in values or is part_number or
\* vendor_string, and at most one for each other key.
C18_Excluded ==
    op[1] = "set_values"
      => LET keys == DOMAIN op[2] \cap DOMAIN SetterRegister
         IN  /\ \A k \in keys :
                  Cardinality({i \in 1..Len(sent) : sent[i].value = SetterRegister[k]}) <= 1
             /\ \A i \in 1..Len(sent) :
                  \E k \in keys : sent[i].value = SetterRegister[k]

\* C19: the text write_hex_file writes for a 1024-byte image is 64 data
\* records and then the end record :00000001FF as the last line; record k
\* holds the size 0x10, the big-endian address 0x3600 + 16k, the type 0x00,
\* the bytes [16k, 16k + 16) of the image and a checksum byte equal to
\* (0x100 - (sum of the bytes before it mod 256)) mod 256, so that the bytes
\* of every record sum to 0 modulo 256.
RecordLayout(line, k, image) ==
    /\ Len(line) = 43
    /\ line[1] = ":"
    /\ decode_hex_ok(Tail(line))
    /\ LET c == decode_hex(Tail(line))
       IN  /\ c[1] = 16
           /\ c[2] = (13824 + 16 * k) \div 256
           /\ c[3] = (13824 + 16 * k) % 256
           /\ c[4] = 0
           /\ \A j \in 1..16 : c[4 + j] = image[16 * k + j]
           /\ c[21] = (256 - (SumBytes(c, 1, 20) % 256)) % 256
           /\ SumBytes(c, 1, 21) % 256 = 0

C19_BuildLayout ==
    (op[1] = "write_hex_file" /\ Len(content) = SIZE_EEPROM)
      => LET lines == split(file)
         IN  /\ Len(lines) = 66
             /\ \A k \in 0..63 : RecordLayout(lines[k + 1], k, content)
             /\ lines[65] = <<":","0","0","0","0","0","0","0","1","F","F">>
             /\ lines[66] = <<>>

\* An image changed by set() was written; its first record holds the byte
\* set and, the bytes before the checksum summing to 0x100, a checksum of 0.
C19_Witness ==
    /\ op[1] = "write_hex_file"
    /\ Len(content) = SIZE_EEPROM
    /\ content[1] = 186 /\ content[2] = 0
    /\ SubSeq(file, 1, 13) = <<":","1","0","3","6","0","0","0","0","b","a","0","0">>

\* C20: every slot i of the merged table holds the first override, in list
\* order, whose baudrate lies in range i (both ends included, the first
\* range without an upper end), or the entry of base when no override lies
\* in range i; an override in no range is in no slot (unless base held the
\* same entry there).
C20_FirstMatchPerSlot ==
    op[1] = "merge_baudrate_table"
      => LET base == op[2]
             new == op[3]
         IN  /\ Len(table) = IF Len(base) < 32 THEN Len(base) ELSE 32
             /\ \A i \in 1..Len(table) :
                  LET hits == {j \in 1..Len(new) : Within(new[j][4], i)}
                  IN  IF hits = {} THEN table[i] = base[i]
                      ELSE \E j \in hits : /\ table[i] = new[j]
                                           /\ \A k \in hits : j <= k
             /\ \A j \in 1..Len(new) :
                  (\A i \in 1..32 : ~Within(new[j][4], i))
                    => \A i \in 1..Len(table) : table[i] = new[j] => base[i] = new[j]

\* Of two overrides in the range 7208..9612 the first went to the slot, and
\* no slot holds the second.
C20_Witness ==
    /\ op[1] = "merge_baudrate_table" /\ op[3] = <<Cfg(9600), Cfg(9000)>>
    /\ Len(op[2]) = 32
    /\ table[24] = Cfg(9600)
    /\ \A i \in 1..32 : table[i] # Cfg(9000)

\* An override below every range, 56, was dropped: the merged table is base.
C20_WitnessDropped ==
    /\ op[1] = "merge_baudrate_table" /\ op[3] = <<Cfg(56)>>
    /\ Len(op[2]) = 32
    /\ table = op[2]

\* C21: a version (i, j) with i, j in 0..99 that the image's version setter
\* stored reads back as (i, j): each of the two bytes stored holds the tens
\* digit in the high nibble and the units digit in the low nibble, and
\* from_bcd2 of the stored number is to_bcd2's argument.
C21_BcdRoundTrip ==
    [][(op'[1] = "setattr" /\ op'[2] = "version" /\ Len(content) = SIZE_EEPROM
          /\ op'[3][1] \in 0..99 /\ op'[3][2] \in 0..99)
        => LET i == op'[3][1]
               j == op'[3][2]
               stored == int_get(content', POS_VERSION, 2)
           IN  /\ error' = "none"
               /\ stored \div 256 = 16 * (i \div 10) + (i % 10)
               /\ stored % 256 = 16 * (j \div 10) + (j % 10)
               /\ from_bcd(to_bcd(i)) = i
               /\ from_bcd(to_bcd(j)) = j
               /\ from_bcd2(stored) = <<i, j>>
               /\ getattr(content', "version") = Got("none", <<i, j>>)]_vars

\* C22: for every p in 0..510, to_div2(p) is p / 2 rounded up, a number that
\* one byte holds; after the image's max_power setter was given such a p the
\* byte at 0x3A2 is that number and the getter returns twice the byte: p for
\* an even p, p + 1 for an odd p.
Ceil2(p) == IF p % 2 = 0 THEN p \div 2 ELSE (p + 1) \div 2

C22_MaxPowerHalving ==
    (op[1] = "setattr" /\ op[2] = "max_power" /\ op[3] \in 0..510)
      => /\ \A p \in 0..510 :
              /\ to_div2(p) = Ceil2(p)
              /\ to_binary(to_div2(p), 1, TRUE) = <<Ceil2(p)>>
         /\ error = "none"
         /\ content[930 + 1] = Ceil2(op[3])
         /\ getattr(content, "max_power") =
              Got("none", IF op[3] % 2 = 0 THEN op[3] ELSE op[3] + 1)

\* The odd value 509 was set: the byte holds 255 and the getter returns 510.
C22_Witness ==
    /\ op = <<"setattr", "max_power", 509>>
    /\ error = "none"
    /\ content[930 + 1] = 255
    /\ getattr(content, "max_power").value = 510

\* C23: what write_file wrote starts with the '[usb device]' heading, then
\* holds one line per scalar key of values, in the order product_string,
\* serial_number, product_id, vendor_id, version, bus_powered, max_power,
\* locked, part_number, vendor_string and none for an absent key; the
\* '[baudrate table]' section follows only when values has baudrate_table,
\* with one line per entry and the baudrates of the lines never increasing,
\* whatever the order of the entries in values.
ScalarCatalog ==
    <<"product_string", "serial_number", "product_id", "vendor_id", "version",
      "bus_powered", "max_power", "locked", "part_number", "vendor_string">>
CatalogIndex(name) == CHOOSE i \in 1..Len(ScalarCatalog) : ScalarCatalog[i] = name

\* The number a text of decimal digits after leading blanks stands for
DigitValue(c) ==
    CASE c = "0" -> 0 [] c = "1" -> 1 [] c = "2" -> 2 [] c = "3" -> 3 [] c = "4" -> 4
      [] c = "5" -> 5 [] c = "6" -> 6 [] c = "7" -> 7 [] c = "8" -> 8 [] c = "9" -> 9
RECURSIVE NumberOf(_, _)
NumberOf(text, n) ==
    IF n = 0 \/ text[n] = " " THEN 0
    ELSE DigitValue(text[n]) + 10 * NumberOf(text, n - 1)
LineRate(line) == NumberOf(line[1], Len(line[1]))

C23_WriteOrder ==
    (op[1] = "write_file" /\ error = "none")
      => LET v == op[2]
             keys == DOMAIN v \ {"baudrate_table"}
             n == Cardinality(keys)
         IN  /\ Len(file) >= 1 + n
             /\ file[1] = <<"[usb device]">>
             /\ \A i \in 2..(n + 1) : file[i][1] \in keys
             /\ \A i, j \in 2..(n + 1) :
                  i < j => CatalogIndex(file[i][1]) < CatalogIndex(file[j][1])
             /\ IF "baudrate_table" \in DOMAIN v
                THEN LET t == v.baudrate_table
                         lines == SubSeq(file, n + 4, Len(file))
                     IN  /\ Len(file) = n + 3 + Len(t)
                         /\ file[n + 3] = <<"[baudrate table]">>
                         /\ \A k \in 1..(Len(lines) - 1) :
                              LineRate(lines[k]) >= LineRate(lines[k + 1])
                         /\ \A i \in 1..Len(t) :
                              Cardinality({k \in 1..Len(lines) : LineRate(lines[k]) = t[i][4]})
                                = Cardinality({k \in 1..Len(t) : t[k][4] = t[i][4]})
                ELSE Len(file) = n + 1

\* Ten scalar fields and a table of four entries given out of order were
\* written: sixteen lines and the empty one, the highest baudrate first in
\* its section and the lowest last.
C23_Witness ==
    /\ op[1] = "write_file" /\ error = "none"
    /\ Len(file) = 17
    /\ op[2].baudrate_table[1][4] < op[2].baudrate_table[2][4]
    /\ file[2][1] = "product_string" /\ file[11][1] = "vendor_string"
    /\ LineRate(file[14]) = 115200 /\ LineRate(file[17]) = 300

\* C24: on an open programmer, a get_locked() that returns gives True exactly
\* when the lock value of the part is LCK_LOCKED, whatever setters succeeded
\* on the same programmer before (the part being changed through it only).
C24_LockNeverStale ==
    [][(op'[1] = "get_locked" /\ handle /\ error' = "none")
        => _locked' = <<device'.lock = LCK_LOCKED>>]_vars

\* C25: on a 1024-byte image, a field setter that accepts its value leaves
\* the image 1024 bytes long and changes no byte outside the range
\* [offset, offset + size) of its field, so every other field (the baudrate
\* table and the lock byte among them) decodes as before.
FieldOffset ==
    [baudrate_table |-> POS_BAUDRATE_TABLE, part_number |-> POS_PART_NUMBER,
     product_string |-> POS_PRODUCT_STRING, serial_number |-> POS_SERIAL_NUMBER,
     vendor_id |-> POS_VENDOR_ID, product_id |-> POS_PRODUCT_ID,
     version |-> POS_VERSION, bus_powered |-> POS_CFG_ATTRIBUTES,
     max_power |-> POS_MAX_POWER, vendor_string |-> POS_VENDOR_STRING,
     locked |-> POS_LOCK_VALUE]
FieldSize ==
    [baudrate_table |-> SIZE_BAUDRATE_TABLE, part_number |-> 1,
     product_string |-> SIZE_PRODUCT_STRING, serial_number |-> SIZE_SERIAL_NUMBER,
     vendor_id |-> 2, product_id |-> 2, version |-> 2, bus_powered |-> 1,
     max_power |-> 1, vendor_string |-> SIZE_VENDOR_STRING, locked |-> 1]

C25_FieldNonInterference ==
    [][(op'[1] = "setattr" /\ error' = "none" /\ Len(content) = SIZE_EEPROM)
        => LET name == op'[2]
               lo == FieldOffset[name]
               hi == FieldOffset[name] + FieldSize[name]
           IN  /\ Len(content') = SIZE_EEPROM
               /\ SubSeq(content', 1, lo) = SubSeq(content, 1, lo)
               /\ SubSeq(content', hi + 1, SIZE_EEPROM) = SubSeq(content, hi + 1, SIZE_EEPROM)
               /\ \A other \in DOMAIN FieldOffset \ {name} :
                    getattr(content', other) = getattr(content, other)]_vars

\* The fields do not overlap, and the longest product string the setter
\* accepts was stored: its descriptor ends before the serial number, which
\* reads as it does in the captured image.
C25_Witness ==
    /\ \A a, b \in DOMAIN FieldOffset :
          a # b => (FieldOffset[a] + FieldSize[a] <= FieldOffset[b]
                     \/ FieldOffset[b] + FieldSize[b] <= FieldOffset[a])
    /\ op[1] = "setattr" /\ op[2] = "product_string" /\ Len(op[3]) = 61
    /\ error = "none" /\ prev = <<"init">>
    /\ Len(content) = SIZE_EEPROM
    /\ content[POS_PRODUCT_STRING + 1] = 124
    /\ content[POS_PRODUCT_STRING + 124] = 0
    /\ getattr(content, "serial_number") = getattr(orig_image, "serial_number")
    /\ getattr(content, "serial_number").error = "none"


\* C26: the ranges of REQUEST_BAUDRATE_RANGES descend without gap or overlap:
\* the first has no upper end, each further one ends one below the lower end
\* of the one before and is not empty, and the last begins at 57. So a
\* baudrate from 57 on lies in exactly one range and a baudrate below 57 in
\* none, and merge_baudrate_table puts an override in at most one slot.
RangeEnds ==
    {REQUEST_BAUDRATE_RANGES[i][2] + d : i \in 1..Len(REQUEST_BAUDRATE_RANGES), d \in {-1, 0, 1}}
      \cup {57, 9600, 3000000, 1073741824}
RangesOf(baudrate) ==
    {i \in 1..Len(REQUEST_BAUDRATE_RANGES) : in_range(baudrate, REQUEST_BAUDRATE_RANGES[i])}

C26_RangePartition ==
    op[1] = "merge_baudrate_table"
      => LET R == REQUEST_BAUDRATE_RANGES
             base == op[2]
             new == op[3]
         IN  /\ R[1][1] = None
             /\ \A i \in 2..Len(R) : R[i][1] = R[i - 1][2] - 1 /\ R[i][2] <= R[i][1]
             /\ R[Len(R)][2] = 57
             /\ \A b \in RangeEnds : b >= 57 => Cardinality(RangesOf(b)) = 1
             /\ \A b \in 0..56 : RangesOf(b) = {}
             /\ \A j \in 1..Len(new) :
                  /\ Cardinality(RangesOf(new[j][4])) = IF new[j][4] >= 57 THEN 1 ELSE 0
                  /\ Cardinality({i \in 1..Len(table) :
                                    table[i] = new[j] /\ base[i] # new[j]}) <= 1

\* An override on the lower end of a range, 7208, went to the slot of that
\* range and not to the next, whose range ends at 7207.
C26_Witness ==
    /\ op[1] = "merge_baudrate_table" /\ op[3] = <<Cfg(7208)>>
    /\ op[2] = Table32
    /\ table[24] = Cfg(7208)
    /\ table[23] = Table32[23] /\ table[25] = Table32[25]
    /\ RangesOf(7208) = {24} /\ RangesOf(7207) = {25}
====
